---------------------------- MODULE Spec2Model ----------------------------
(***************************************************************************)
(* Model of the cmdx command translation engine (src/translator).          *)
(*                                                                         *)
(* The library is a set of pure functions over strings and a read-only     *)
(* rule table.  Each entry point is an action that takes a call drawn by   *)
(* Init from a bounded set of inputs and stores what the function returns. *)
(* Strings are TLA+ strings; a character is a string of length 1.          *)
(***************************************************************************)
EXTENDS Integers, Sequences, FiniteSets, TLC

VARIABLES
    pc,     \* "ready": the call has not run; "done": ret holds its result
    op,     \* the entry point that ran ("none" while ready)
    arg,    \* the inputs of the call, a record with a field kind
    ret     \* the value returned (<<>> while ready)

vars == <<pc, op, arg, ret>>

-----------------------------------------------------------------------------
(* Bounds of the model *)

\* most argument tokens after the verb of a generated command line
MaxArgs == 2
\* most argument tokens handed to translate_flags directly
MaxFlagArgs == 2
\* most rules in a generated CommandMapping
MaxRules == 2

\* the number of components of a generated path
MaxComponents == 2

\* the number of pieces of a generated string with references to variables
MaxPieces == 3

\* most arguments after the operation token of a generated package command
MaxPackageArgs == 2

-----------------------------------------------------------------------------
(* Rust's str and Vec operations used by the engine *)

CharAt(s, i) == SubSeq(s, i, i)

AsciiUpper == "ABCDEFGHIJKLMNOPQRSTUVWXYZ"
AsciiLower == "abcdefghijklmnopqrstuvwxyz"

\* char::to_lowercase on the ASCII range
LowerTable == [c \in {CharAt(AsciiUpper, i) : i \in 1..26} |->
                 CharAt(AsciiLower, CHOOSE i \in 1..26 : CharAt(AsciiUpper, i) = c)]

to_lowercase_char(c) == IF c \in DOMAIN LowerTable THEN LowerTable[c] ELSE c

RECURSIVE to_lowercase(_)
to_lowercase(s) ==
    IF s = "" THEN ""
    ELSE to_lowercase_char(Head(s)) \o to_lowercase(Tail(s))

\* char::is_whitespace, on the characters the inputs use
is_whitespace(c) == c \in {" ", "\t"}

RECURSIVE trim_start(_)
trim_start(s) ==
    IF s # "" /\ is_whitespace(Head(s)) THEN trim_start(Tail(s)) ELSE s

RECURSIVE trim_end(_)
trim_end(s) ==
    IF s # "" /\ is_whitespace(CharAt(s, Len(s)))
    THEN trim_end(SubSeq(s, 1, Len(s) - 1))
    ELSE s

trim(s) == trim_end(trim_start(s))

starts_with(s, prefix) ==
    Len(prefix) <= Len(s) /\ SubSeq(s, 1, Len(prefix)) = prefix

\* str::trim_start_matches(char)
RECURSIVE trim_start_matches(_, _)
trim_start_matches(s, c) ==
    IF s # "" /\ Head(s) = c THEN trim_start_matches(Tail(s), c) ELSE s

\* str::split_whitespace, collected: the maximal runs of non-whitespace
RECURSIVE SplitWsFrom(_, _, _)
SplitWsFrom(s, cur, acc) ==
    IF s = "" THEN (IF cur = "" THEN acc ELSE Append(acc, cur))
    ELSE IF is_whitespace(Head(s))
         THEN SplitWsFrom(Tail(s), "", IF cur = "" THEN acc ELSE Append(acc, cur))
         ELSE SplitWsFrom(Tail(s), cur \o Head(s), acc)

split_whitespace(s) == SplitWsFrom(s, "", <<>>)

\* [String]::join(sep)
RECURSIVE join(_, _)
join(parts, sep) ==
    IF parts = <<>> THEN ""
    ELSE IF Len(parts) = 1 THEN parts[1]
    ELSE parts[1] \o sep \o join(Tail(parts), sep)

\* str::contains(&str)
contains(s, pat) ==
    \E i \in 1..(Len(s) - Len(pat) + 1) : SubSeq(s, i, i + Len(pat) - 1) = pat

\* the strings of a sequence put end to end
RECURSIVE Concat(_)
Concat(parts) == IF parts = <<>> THEN "" ELSE Head(parts) \o Concat(Tail(parts))

-----------------------------------------------------------------------------
(* os.rs: the closed set of operating systems *)

Os == {"Windows", "Linux", "MacOS", "FreeBSD", "OpenBSD", "NetBSD",
       "Solaris", "Android", "Ios", "Unknown"}

\* impl fmt::Display for Os
OsDisplay(os) ==
    CASE os = "MacOS" -> "macOS"
      [] os = "Ios" -> "iOS"
      [] OTHER -> os

is_unix_like(os) ==
    os \in {"Linux", "MacOS", "FreeBSD", "OpenBSD", "NetBSD", "Solaris", "Android"}

-----------------------------------------------------------------------------
(* command_map.rs: the rule table *)

None == <<>>
Some(x) == <<x>>

\* FlagMapping::new and FlagMapping::with_description; the description is
\* never read by the translation and is left out
FlagMappingNew(source, target) == [source |-> source, target |-> target]

\* CommandMapping::new(source_cmd, target_cmd).with_flags(flags)
CommandMappingNew(source_cmd, target_cmd, flags) ==
    [source_cmd |-> source_cmd,
     target_cmd |-> target_cmd,
     flag_mappings |-> flags,
     preserve_unmapped_flags |-> TRUE,
     notes |-> None]

WindowsNativeCommands ==
    {"assoc", "attrib", "bcdedit", "bootrec", "call", "chkdsk", "clip", "cls", "cmd",
     "color", "copy", "del", "dir", "diskpart", "dism", "echo", "endlocal", "erase",
     "exit", "fc", "find", "findstr", "for", "format", "ftype", "goto", "hostname",
     "icacls", "if", "ipconfig", "label", "md", "mkdir", "mklink", "more", "move", "net",
     "netstat", "path", "pause", "ping", "popd", "powershell", "prompt", "pushd", "rd",
     "reg", "ren", "rename", "rmdir", "robocopy", "sc", "set", "setlocal", "sfc",
     "shutdown", "sort", "start", "systeminfo", "takeown", "taskkill", "tasklist", "title",
     "tracert", "tree", "type", "ver", "vol", "where", "whoami", "wmic", "xcopy"}

UnixNativeCommands ==
    {"alias", "apt", "apt-get", "ar", "at", "awk", "base64", "basename", "bc", "bg",
     "blkid", "brew", "bzip2", "cal", "cat", "cd", "chgrp", "chmod", "chown", "clang",
     "clear", "cp", "crontab", "curl", "cut", "cvs", "date", "dd", "df", "diff", "dirname",
     "dmesg", "dnf", "du", "echo", "emerge", "env", "exit", "export", "expr", "fdisk",
     "fg", "file", "find", "firewalld", "flatpak", "free", "fsck", "ftp", "g++", "gcc",
     "gdb", "git", "gpg", "grep", "groupadd", "groupdel", "groups", "gunzip", "gzip",
     "halt", "head", "hexdump", "hg", "history", "htop", "id", "ifconfig", "info",
     "iostat", "ip", "iptables", "jobs", "journalctl", "kill", "last", "ld", "ldd", "less",
     "ln", "locate", "logger", "logout", "ls", "lsblk", "ltrace", "make", "man", "md5sum",
     "mkdir", "mkfs", "more", "mount", "mv", "nc", "netstat", "nm", "nmap", "nohup",
     "objdump", "od", "openssl", "pacman", "parted", "passwd", "patch", "ping", "pkg",
     "pkill", "poweroff", "printenv", "printf", "ps", "pwd", "readelf", "readlink",
     "realpath", "reboot", "rm", "rmdir", "rsync", "sar", "scp", "screen", "sed",
     "service", "sftp", "sha1sum", "sha256sum", "shutdown", "snap", "sort", "source", "ss",
     "ssh", "stat", "strace", "strings", "su", "sudo", "svn", "syslog", "systemctl",
     "tail", "tar", "tcpdump", "tee", "telnet", "test", "tmux", "top", "touch", "tr",
     "traceroute", "ufw", "umount", "unalias", "uname", "uniq", "unzip", "uptime",
     "useradd", "userdel", "usermod", "valgrind", "vmstat", "w", "wc", "wget", "whereis",
     "which", "who", "xargs", "xclip", "xdg-open", "xsel", "xxd", "xz", "yum", "zip",
     "zypper"}

MacNativeCommands ==
    {"alias", "at", "awk", "base64", "basename", "bc", "bg", "brew", "bzip2", "caffeinate",
     "cal", "cat", "cd", "chgrp", "chmod", "chown", "clang", "clear", "codesign", "cp",
     "crontab", "curl", "cut", "date", "dd", "defaults", "df", "diff", "dirname",
     "diskutil", "dscacheutil", "dscl", "dtrace", "du", "echo", "env", "exit", "export",
     "expr", "fg", "file", "find", "fs_usage", "ftp", "git", "grep", "groups", "gunzip",
     "gzip", "halt", "hdiutil", "head", "hexdump", "hg", "history", "id", "ifconfig",
     "jobs", "keychain", "kill", "last", "launchctl", "less", "lldb", "ln", "locate",
     "logout", "ls", "make", "man", "md5", "mdfind", "mkdir", "more", "mount", "mv", "nc",
     "netstat", "nmap", "nohup", "od", "open", "openssl", "osascript", "passwd", "patch",
     "pbcopy", "pbpaste", "pfctl", "ping", "pkill", "port", "printenv", "printf", "ps",
     "pwd", "readlink", "realpath", "reboot", "rm", "rmdir", "rsync", "say", "scp",
     "screen", "security", "sed", "sftp", "shasum", "shutdown", "softwareupdate", "sort",
     "source", "spctl", "ssh", "stat", "strings", "su", "sudo", "svn", "sw_vers",
     "system_profiler", "tail", "tar", "tcpdump", "tee", "telnet", "test", "tmux", "top",
     "touch", "tr", "traceroute", "umount", "unalias", "uname", "uniq", "unzip", "uptime",
     "vm_stat", "w", "wc", "whereis", "which", "who", "xargs", "xcode-select", "xcrun",
     "xxd", "xz", "zip"}

BsdMappings(bsd) ==
       (<<"dir", "Windows", bsd>> :> CommandMappingNew("dir", "ls",
          <<FlagMappingNew("/w", "-C"),
            FlagMappingNew("/s", "-R"),
            FlagMappingNew("/b", "-1"),
            FlagMappingNew("/a", "-la")>>))
    @@ (<<"copy", "Windows", bsd>> :> CommandMappingNew("copy", "cp",
          <<FlagMappingNew("/y", "-f"),
            FlagMappingNew("/v", "-v")>>))
    @@ (<<"ls", bsd, "Windows">> :> CommandMappingNew("ls", "dir",
          <<FlagMappingNew("-a", "/a"),
            FlagMappingNew("-R", "/s"),
            FlagMappingNew("-1", "/b")>>))

COMMAND_MAPPINGS ==
       (<<"dir", "Windows", "Linux">> :> CommandMappingNew("dir", "ls",
          <<FlagMappingNew("/w", "-C"),
            FlagMappingNew("/d", "-C"),
            FlagMappingNew("/s", "-R"),
            FlagMappingNew("/b", "-1"),
            FlagMappingNew("/a", "-la"),
            FlagMappingNew("/a:h", "-a"),
            FlagMappingNew("/a:d", "-d */"),
            FlagMappingNew("/a:r", "-l"),
            FlagMappingNew("/a:-h", ""),
            FlagMappingNew("/o", ""),
            FlagMappingNew("/o:n", "--sort=name"),
            FlagMappingNew("/o:-n", "--sort=name -r"),
            FlagMappingNew("/o:s", "--sort=size"),
            FlagMappingNew("/o:-s", "--sort=size -r"),
            FlagMappingNew("/o:d", "--sort=time"),
            FlagMappingNew("/o:-d", "--sort=time -r"),
            FlagMappingNew("/o:e", "--sort=extension"),
            FlagMappingNew("/o:g", ""),
            FlagMappingNew("/t:c", "--time=ctime"),
            FlagMappingNew("/t:a", "--time=atime"),
            FlagMappingNew("/t:w", ""),
            FlagMappingNew("/p", ""),
            FlagMappingNew("/q", "-l"),
            FlagMappingNew("/n", "-1"),
            FlagMappingNew("/x", "-lX"),
            FlagMappingNew("/4", ""),
            FlagMappingNew("/l", "-l"),
            FlagMappingNew("/c", "--block-size=1")>>))
    @@ (<<"dir", "Windows", "MacOS">> :> CommandMappingNew("dir", "ls",
          <<FlagMappingNew("/w", "-C"),
            FlagMappingNew("/s", "-R"),
            FlagMappingNew("/b", "-1"),
            FlagMappingNew("/a", "-la"),
            FlagMappingNew("/a:h", "-a"),
            FlagMappingNew("/o:n", ""),
            FlagMappingNew("/o:s", "-S"),
            FlagMappingNew("/o:d", "-t"),
            FlagMappingNew("/q", "-l")>>))
    @@ (<<"copy", "Windows", "Linux">> :> CommandMappingNew("copy", "cp",
          <<FlagMappingNew("/y", "-f"),
            FlagMappingNew("/-y", "-i"),
            FlagMappingNew("/v", "-v"),
            FlagMappingNew("/z", ""),
            FlagMappingNew("/a", ""),
            FlagMappingNew("/b", ""),
            FlagMappingNew("/d", ""),
            FlagMappingNew("/n", ""),
            FlagMappingNew("/l", "-s")>>))
    @@ (<<"copy", "Windows", "MacOS">> :> CommandMappingNew("copy", "cp",
          <<FlagMappingNew("/y", "-f"),
            FlagMappingNew("/-y", "-i"),
            FlagMappingNew("/v", "-v")>>))
    @@ (<<"xcopy", "Windows", "Linux">> :> CommandMappingNew("xcopy", "cp -r",
          <<FlagMappingNew("/s", ""),
            FlagMappingNew("/e", ""),
            FlagMappingNew("/y", "-f"),
            FlagMappingNew("/-y", "-i"),
            FlagMappingNew("/i", ""),
            FlagMappingNew("/q", ""),
            FlagMappingNew("/f", "-v"),
            FlagMappingNew("/l", "-n"),
            FlagMappingNew("/h", ""),
            FlagMappingNew("/r", ""),
            FlagMappingNew("/t", ""),
            FlagMappingNew("/u", "-u"),
            FlagMappingNew("/k", "-p"),
            FlagMappingNew("/n", ""),
            FlagMappingNew("/o", "-p"),
            FlagMappingNew("/x", "-p"),
            FlagMappingNew("/v", ""),
            FlagMappingNew("/c", ""),
            FlagMappingNew("/g", ""),
            FlagMappingNew("/d", ""),
            FlagMappingNew("/a", ""),
            FlagMappingNew("/m", ""),
            FlagMappingNew("/z", ""),
            FlagMappingNew("/b", "-a"),
            FlagMappingNew("/j", "")>>))
    @@ (<<"move", "Windows", "Linux">> :> CommandMappingNew("move", "mv",
          <<FlagMappingNew("/y", "-f"),
            FlagMappingNew("/-y", "-i")>>))
    @@ (<<"move", "Windows", "MacOS">> :> CommandMappingNew("move", "mv",
          <<FlagMappingNew("/y", "-f"),
            FlagMappingNew("/-y", "-i")>>))
    @@ (<<"del", "Windows", "Linux">> :> CommandMappingNew("del", "rm",
          <<FlagMappingNew("/s", "-r"),
            FlagMappingNew("/q", "-f"),
            FlagMappingNew("/f", "-f"),
            FlagMappingNew("/p", "-i"),
            FlagMappingNew("/a", ""),
            FlagMappingNew("/a:r", ""),
            FlagMappingNew("/a:h", ""),
            FlagMappingNew("/a:s", ""),
            FlagMappingNew("/a:a", "")>>))
    @@ (<<"del", "Windows", "MacOS">> :> CommandMappingNew("del", "rm",
          <<FlagMappingNew("/s", "-r"),
            FlagMappingNew("/q", "-f"),
            FlagMappingNew("/f", "-f"),
            FlagMappingNew("/p", "-i")>>))
    @@ (<<"erase", "Windows", "Linux">> :> CommandMappingNew("erase", "rm",
          <<FlagMappingNew("/s", "-r"),
            FlagMappingNew("/q", "-f"),
            FlagMappingNew("/f", "-f"),
            FlagMappingNew("/p", "-i")>>))
    @@ (<<"rmdir", "Windows", "Linux">> :> CommandMappingNew("rmdir", "rm -r",
          <<FlagMappingNew("/s", ""),
            FlagMappingNew("/q", "-f")>>))
    @@ (<<"rmdir", "Windows", "MacOS">> :> CommandMappingNew("rmdir", "rm -r",
          <<FlagMappingNew("/s", ""),
            FlagMappingNew("/q", "-f")>>))
    @@ (<<"rd", "Windows", "Linux">> :> CommandMappingNew("rd", "rm -r",
          <<FlagMappingNew("/s", ""),
            FlagMappingNew("/q", "-f")>>))
    @@ (<<"mkdir", "Windows", "Linux">> :> CommandMappingNew("mkdir", "mkdir",
          <<FlagMappingNew("", "-p")>>))
    @@ (<<"mkdir", "Windows", "MacOS">> :> CommandMappingNew("mkdir", "mkdir",
          <<FlagMappingNew("", "-p")>>))
    @@ (<<"md", "Windows", "Linux">> :> CommandMappingNew("md", "mkdir -p", <<>>))
    @@ (<<"type", "Windows", "Linux">> :> CommandMappingNew("type", "cat", <<>>))
    @@ (<<"type", "Windows", "MacOS">> :> CommandMappingNew("type", "cat", <<>>))
    @@ (<<"cls", "Windows", "Linux">> :> CommandMappingNew("cls", "clear", <<>>))
    @@ (<<"cls", "Windows", "MacOS">> :> CommandMappingNew("cls", "clear", <<>>))
    @@ (<<"echo", "Windows", "Linux">> :> CommandMappingNew("echo", "echo", <<>>))
    @@ (<<"findstr", "Windows", "Linux">> :> CommandMappingNew("findstr", "grep",
          <<FlagMappingNew("/i", "-i"),
            FlagMappingNew("/s", "-r"),
            FlagMappingNew("/n", "-n"),
            FlagMappingNew("/v", "-v"),
            FlagMappingNew("/c:", "-c"),
            FlagMappingNew("/r", "-E")>>))
    @@ (<<"find", "Windows", "Linux">> :> CommandMappingNew("find", "grep",
          <<FlagMappingNew("/i", "-i"),
            FlagMappingNew("/v", "-v"),
            FlagMappingNew("/c", "-c"),
            FlagMappingNew("/n", "-n")>>))
    @@ (<<"tasklist", "Windows", "Linux">> :> CommandMappingNew("tasklist", "ps aux", <<>>))
    @@ (<<"tasklist", "Windows", "MacOS">> :> CommandMappingNew("tasklist", "ps aux", <<>>))
    @@ (<<"taskkill", "Windows", "Linux">> :> CommandMappingNew("taskkill", "kill",
          <<FlagMappingNew("/f", "-9"),
            FlagMappingNew("/pid", ""),
            FlagMappingNew("/im", "-pkill ")>>))
    @@ (<<"ipconfig", "Windows", "Linux">> :> CommandMappingNew("ipconfig", "ip addr",
          <<FlagMappingNew("/all", "show"),
            FlagMappingNew("/release", ""),
            FlagMappingNew("/renew", "")>>))
    @@ (<<"ipconfig", "Windows", "MacOS">> :> CommandMappingNew("ipconfig", "ifconfig", <<>>))
    @@ (<<"systeminfo", "Windows", "Linux">> :> CommandMappingNew("systeminfo", "uname -a && cat /etc/os-release", <<>>))
    @@ (<<"hostname", "Windows", "Linux">> :> CommandMappingNew("hostname", "hostname", <<>>))
    @@ (<<"whoami", "Windows", "Linux">> :> CommandMappingNew("whoami", "whoami", <<>>))
    @@ (<<"set", "Windows", "Linux">> :> CommandMappingNew("set", "env", <<>>))
    @@ (<<"attrib", "Windows", "Linux">> :> CommandMappingNew("attrib", "chmod", <<>>))
    @@ (<<"fc", "Windows", "Linux">> :> CommandMappingNew("fc", "diff",
          <<FlagMappingNew("/b", ""),
            FlagMappingNew("/c", "-i"),
            FlagMappingNew("/n", "-n"),
            FlagMappingNew("/w", "-w")>>))
    @@ (<<"more", "Windows", "Linux">> :> CommandMappingNew("more", "less", <<>>))
    @@ (<<"ren", "Windows", "Linux">> :> CommandMappingNew("ren", "mv", <<>>))
    @@ (<<"rename", "Windows", "Linux">> :> CommandMappingNew("rename", "mv", <<>>))
    @@ (<<"tree", "Windows", "Linux">> :> CommandMappingNew("tree", "tree",
          <<FlagMappingNew("/f", ""),
            FlagMappingNew("/a", "--charset=ascii")>>))
    @@ (<<"sort", "Windows", "Linux">> :> CommandMappingNew("sort", "sort",
          <<FlagMappingNew("/r", "-r"),
            FlagMappingNew("/n", "-n")>>))
    @@ (<<"where", "Windows", "Linux">> :> CommandMappingNew("where", "which", <<>>))
    @@ (<<"ping", "Windows", "Linux">> :> CommandMappingNew("ping", "ping",
          <<FlagMappingNew("-n", "-c"),
            FlagMappingNew("-t", ""),
            FlagMappingNew("-l", "-s"),
            FlagMappingNew("-w", "-W")>>))
    @@ (<<"tracert", "Windows", "Linux">> :> CommandMappingNew("tracert", "traceroute",
          <<FlagMappingNew("-h", "-m"),
            FlagMappingNew("-w", "-w")>>))
    @@ (<<"netstat", "Windows", "Linux">> :> CommandMappingNew("netstat", "ss",
          <<FlagMappingNew("-a", "-a"),
            FlagMappingNew("-n", "-n"),
            FlagMappingNew("-o", "-p"),
            FlagMappingNew("-b", "-p")>>))
    @@ (<<"chkdsk", "Windows", "Linux">> :> CommandMappingNew("chkdsk", "fsck",
          <<FlagMappingNew("/f", "-y"),
            FlagMappingNew("/r", "-c"),
            FlagMappingNew("/x", ""),
            FlagMappingNew("/i", ""),
            FlagMappingNew("/c", ""),
            FlagMappingNew("/b", "")>>))
    @@ (<<"ls", "Linux", "Windows">> :> CommandMappingNew("ls", "dir",
          <<FlagMappingNew("-l", ""),
            FlagMappingNew("-a", "/a"),
            FlagMappingNew("-A", "/a"),
            FlagMappingNew("-la", "/a"),
            FlagMappingNew("-lA", "/a"),
            FlagMappingNew("-R", "/s"),
            FlagMappingNew("-1", "/b"),
            FlagMappingNew("-C", "/w"),
            FlagMappingNew("-S", "/o:s"),
            FlagMappingNew("-t", "/o:d"),
            FlagMappingNew("-r", "/o:-n"),
            FlagMappingNew("-X", "/o:e"),
            FlagMappingNew("-h", ""),
            FlagMappingNew("-d", ""),
            FlagMappingNew("-F", ""),
            FlagMappingNew("-i", ""),
            FlagMappingNew("-n", ""),
            FlagMappingNew("-o", ""),
            FlagMappingNew("-g", ""),
            FlagMappingNew("-p", ""),
            FlagMappingNew("-Q", ""),
            FlagMappingNew("-s", ""),
            FlagMappingNew("-u", "/o:d"),
            FlagMappingNew("-U", ""),
            FlagMappingNew("-v", "/o:n"),
            FlagMappingNew("--sort=size", "/o:s"),
            FlagMappingNew("--sort=time", "/o:d"),
            FlagMappingNew("--sort=name", "/o:n"),
            FlagMappingNew("--sort=extension", "/o:e"),
            FlagMappingNew("--sort=none", ""),
            FlagMappingNew("--color", ""),
            FlagMappingNew("--color=auto", ""),
            FlagMappingNew("--color=never", "")>>))
    @@ (<<"ls", "MacOS", "Windows">> :> CommandMappingNew("ls", "dir",
          <<FlagMappingNew("-l", ""),
            FlagMappingNew("-a", "/a"),
            FlagMappingNew("-A", "/a"),
            FlagMappingNew("-la", "/a"),
            FlagMappingNew("-R", "/s"),
            FlagMappingNew("-1", "/b"),
            FlagMappingNew("-S", "/o:s"),
            FlagMappingNew("-t", "/o:d"),
            FlagMappingNew("-r", "/o:-n")>>))
    @@ (<<"cp", "Linux", "Windows">> :> CommandMappingNew("cp", "copy",
          <<FlagMappingNew("-r", "xcopy /s /e /y"),
            FlagMappingNew("-R", "xcopy /s /e /y"),
            FlagMappingNew("-f", "/y"),
            FlagMappingNew("-i", "/-y"),
            FlagMappingNew("-n", "/-y"),
            FlagMappingNew("-v", "/v"),
            FlagMappingNew("-u", ""),
            FlagMappingNew("-p", ""),
            FlagMappingNew("-a", "xcopy /s /e /h /k"),
            FlagMappingNew("-l", ""),
            FlagMappingNew("-s", ""),
            FlagMappingNew("-L", ""),
            FlagMappingNew("-P", ""),
            FlagMappingNew("-d", ""),
            FlagMappingNew("-x", ""),
            FlagMappingNew("-t", ""),
            FlagMappingNew("-T", ""),
            FlagMappingNew("--backup", ""),
            FlagMappingNew("--preserve", "")>>))
    @@ (<<"cp", "MacOS", "Windows">> :> CommandMappingNew("cp", "copy",
          <<FlagMappingNew("-r", "xcopy /s /e /y"),
            FlagMappingNew("-R", "xcopy /s /e /y"),
            FlagMappingNew("-f", "/y"),
            FlagMappingNew("-i", "/-y"),
            FlagMappingNew("-v", "/v"),
            FlagMappingNew("-p", "")>>))
    @@ (<<"mv", "Linux", "Windows">> :> CommandMappingNew("mv", "move",
          <<FlagMappingNew("-f", "/y"),
            FlagMappingNew("-i", "/-y"),
            FlagMappingNew("-n", "/-y"),
            FlagMappingNew("-u", ""),
            FlagMappingNew("-v", ""),
            FlagMappingNew("-t", ""),
            FlagMappingNew("-T", ""),
            FlagMappingNew("--backup", "")>>))
    @@ (<<"mv", "MacOS", "Windows">> :> CommandMappingNew("mv", "move",
          <<FlagMappingNew("-f", "/y"),
            FlagMappingNew("-i", "/-y"),
            FlagMappingNew("-n", "/-y"),
            FlagMappingNew("-v", "")>>))
    @@ (<<"rm", "Linux", "Windows">> :> CommandMappingNew("rm", "del",
          <<FlagMappingNew("-r", "/s"),
            FlagMappingNew("-R", "/s"),
            FlagMappingNew("-f", "/q /f"),
            FlagMappingNew("-i", "/p"),
            FlagMappingNew("-I", "/p"),
            FlagMappingNew("-rf", "/s /q /f"),
            FlagMappingNew("-fr", "/s /q /f"),
            FlagMappingNew("-v", ""),
            FlagMappingNew("-d", "rmdir"),
            FlagMappingNew("--preserve-root", ""),
            FlagMappingNew("--no-preserve-root", ""),
            FlagMappingNew("--one-file-system", "")>>))
    @@ (<<"rm", "MacOS", "Windows">> :> CommandMappingNew("rm", "del",
          <<FlagMappingNew("-r", "/s"),
            FlagMappingNew("-R", "/s"),
            FlagMappingNew("-f", "/q /f"),
            FlagMappingNew("-i", "/p"),
            FlagMappingNew("-rf", "/s /q /f"),
            FlagMappingNew("-v", ""),
            FlagMappingNew("-d", "rmdir"),
            FlagMappingNew("-P", "")>>))
    @@ (<<"cat", "Linux", "Windows">> :> CommandMappingNew("cat", "type",
          <<FlagMappingNew("-n", ""),
            FlagMappingNew("-b", ""),
            FlagMappingNew("-s", ""),
            FlagMappingNew("-E", ""),
            FlagMappingNew("-T", ""),
            FlagMappingNew("-A", ""),
            FlagMappingNew("-v", "")>>))
    @@ (<<"cat", "MacOS", "Windows">> :> CommandMappingNew("cat", "type",
          <<FlagMappingNew("-n", ""),
            FlagMappingNew("-b", ""),
            FlagMappingNew("-s", "")>>))
    @@ (<<"clear", "Linux", "Windows">> :> CommandMappingNew("clear", "cls", <<>>))
    @@ (<<"clear", "MacOS", "Windows">> :> CommandMappingNew("clear", "cls", <<>>))
    @@ (<<"grep", "Linux", "Windows">> :> CommandMappingNew("grep", "findstr",
          <<FlagMappingNew("-i", "/i"),
            FlagMappingNew("-I", "/i"),
            FlagMappingNew("-r", "/s"),
            FlagMappingNew("-R", "/s"),
            FlagMappingNew("-n", "/n"),
            FlagMappingNew("-v", "/v"),
            FlagMappingNew("-c", "/c:"),
            FlagMappingNew("-l", "/m"),
            FlagMappingNew("-L", ""),
            FlagMappingNew("-E", "/r"),
            FlagMappingNew("-e", ""),
            FlagMappingNew("-f", "/g:"),
            FlagMappingNew("-w", ""),
            FlagMappingNew("-x", "/x"),
            FlagMappingNew("-o", ""),
            FlagMappingNew("-h", ""),
            FlagMappingNew("-H", ""),
            FlagMappingNew("-q", ""),
            FlagMappingNew("-s", ""),
            FlagMappingNew("-m", ""),
            FlagMappingNew("-A", ""),
            FlagMappingNew("-B", ""),
            FlagMappingNew("-C", ""),
            FlagMappingNew("--color", ""),
            FlagMappingNew("--include", ""),
            FlagMappingNew("--exclude", "")>>))
    @@ (<<"grep", "MacOS", "Windows">> :> CommandMappingNew("grep", "findstr",
          <<FlagMappingNew("-i", "/i"),
            FlagMappingNew("-r", "/s"),
            FlagMappingNew("-R", "/s"),
            FlagMappingNew("-n", "/n"),
            FlagMappingNew("-v", "/v"),
            FlagMappingNew("-c", "/c:"),
            FlagMappingNew("-l", "/m"),
            FlagMappingNew("-E", "/r")>>))
    @@ (<<"ps", "Linux", "Windows">> :> CommandMappingNew("ps", "tasklist", <<>>))
    @@ (<<"kill", "Linux", "Windows">> :> CommandMappingNew("kill", "taskkill /pid",
          <<FlagMappingNew("-9", "/f"),
            FlagMappingNew("-SIGKILL", "/f"),
            FlagMappingNew("-SIGTERM", "")>>))
    @@ (<<"pkill", "Linux", "Windows">> :> CommandMappingNew("pkill", "taskkill /im",
          <<FlagMappingNew("-9", "/f")>>))
    @@ (<<"ifconfig", "Linux", "Windows">> :> CommandMappingNew("ifconfig", "ipconfig", <<>>))
    @@ (<<"ip", "Linux", "Windows">> :> CommandMappingNew("ip", "ipconfig",
          <<FlagMappingNew("addr", "/all"),
            FlagMappingNew("link", ""),
            FlagMappingNew("route", "")>>))
    @@ (<<"uname", "Linux", "Windows">> :> CommandMappingNew("uname", "systeminfo",
          <<FlagMappingNew("-a", ""),
            FlagMappingNew("-r", "")>>))
    @@ (<<"env", "Linux", "Windows">> :> CommandMappingNew("env", "set", <<>>))
    @@ (<<"printenv", "Linux", "Windows">> :> CommandMappingNew("printenv", "set", <<>>))
    @@ (<<"chmod", "Linux", "Windows">> :> CommandMappingNew("chmod", "attrib", <<>>))
    @@ (<<"diff", "Linux", "Windows">> :> CommandMappingNew("diff", "fc",
          <<FlagMappingNew("-i", "/c"),
            FlagMappingNew("-w", "/w"),
            FlagMappingNew("-n", "/n")>>))
    @@ (<<"less", "Linux", "Windows">> :> CommandMappingNew("less", "more", <<>>))
    @@ (<<"which", "Linux", "Windows">> :> CommandMappingNew("which", "where", <<>>))
    @@ (<<"whereis", "Linux", "Windows">> :> CommandMappingNew("whereis", "where", <<>>))
    @@ (<<"touch", "Linux", "Windows">> :> CommandMappingNew("touch", "type nul >", <<>>))
    @@ (<<"head", "Linux", "Windows">> :> CommandMappingNew("head", "more", <<>>))
    @@ (<<"tail", "Linux", "Windows">> :> CommandMappingNew("tail", "more", <<>>))
    @@ (<<"ping", "Linux", "Windows">> :> CommandMappingNew("ping", "ping",
          <<FlagMappingNew("-c", "-n"),
            FlagMappingNew("-s", "-l"),
            FlagMappingNew("-W", "-w")>>))
    @@ (<<"traceroute", "Linux", "Windows">> :> CommandMappingNew("traceroute", "tracert",
          <<FlagMappingNew("-m", "-h"),
            FlagMappingNew("-w", "-w")>>))
    @@ (<<"ss", "Linux", "Windows">> :> CommandMappingNew("ss", "netstat",
          <<FlagMappingNew("-a", "-a"),
            FlagMappingNew("-n", "-n"),
            FlagMappingNew("-p", "-o"),
            FlagMappingNew("-t", ""),
            FlagMappingNew("-u", "")>>))
    @@ (<<"tar", "Linux", "Windows">> :> CommandMappingNew("tar", "tar", <<>>))
    @@ (<<"curl", "Linux", "Windows">> :> CommandMappingNew("curl", "curl", <<>>))
    @@ (<<"wget", "Linux", "Windows">> :> CommandMappingNew("wget", "curl -O",
          <<FlagMappingNew("-O", "-o"),
            FlagMappingNew("-q", "-s")>>))
    @@ (<<"df", "Linux", "Windows">> :> CommandMappingNew("df", "wmic logicaldisk get size,freespace,caption", <<>>))
    @@ (<<"du", "Linux", "Windows">> :> CommandMappingNew("du", "dir /s", <<>>))
    @@ (<<"ln", "Linux", "Windows">> :> CommandMappingNew("ln", "mklink",
          <<FlagMappingNew("-s", "")>>))
    @@ (<<"man", "Linux", "Windows">> :> CommandMappingNew("man", "help", <<>>))
    @@ (<<"open", "MacOS", "Windows">> :> CommandMappingNew("open", "start",
          <<FlagMappingNew("-a", ""),
            FlagMappingNew("-R", "")>>))
    @@ (<<"start", "Windows", "MacOS">> :> CommandMappingNew("start", "open", <<>>))
    @@ (<<"pbcopy", "MacOS", "Windows">> :> CommandMappingNew("pbcopy", "clip", <<>>))
    @@ (<<"pbpaste", "MacOS", "Windows">> :> CommandMappingNew("pbpaste", "powershell -command Get-Clipboard", <<>>))
    @@ (<<"xclip", "Linux", "MacOS">> :> CommandMappingNew("xclip", "pbcopy", <<>>))
    @@ (<<"xdg-open", "Linux", "MacOS">> :> CommandMappingNew("xdg-open", "open", <<>>))
    @@ (<<"open", "MacOS", "Linux">> :> CommandMappingNew("open", "xdg-open", <<>>))
    @@ (<<"pbcopy", "MacOS", "Linux">> :> CommandMappingNew("pbcopy", "xclip -selection clipboard", <<>>))
    @@ (<<"pbpaste", "MacOS", "Linux">> :> CommandMappingNew("pbpaste", "xclip -selection clipboard -o", <<>>))
    @@ (<<"start", "Windows", "Linux">> :> CommandMappingNew("start", "xdg-open", <<>>))
    @@ (<<"clip", "Windows", "Linux">> :> CommandMappingNew("clip", "xclip -selection clipboard", <<>>))
    @@ (<<"xdg-open", "Linux", "Windows">> :> CommandMappingNew("xdg-open", "start", <<>>))
    @@ (<<"xclip", "Linux", "Windows">> :> CommandMappingNew("xclip", "clip", <<>>))
    @@ (<<"shutdown", "Windows", "Linux">> :> CommandMappingNew("shutdown", "shutdown",
          <<FlagMappingNew("/s", "-h now"),
            FlagMappingNew("/r", "-r now"),
            FlagMappingNew("/t", "-t"),
            FlagMappingNew("/a", "-c")>>))
    @@ (<<"shutdown", "Linux", "Windows">> :> CommandMappingNew("shutdown", "shutdown",
          <<FlagMappingNew("-h", "/s"),
            FlagMappingNew("-r", "/r"),
            FlagMappingNew("-c", "/a")>>))
    @@ BsdMappings("FreeBSD") @@ BsdMappings("OpenBSD") @@ BsdMappings("NetBSD")

\* get_mapping: the key is built by MappingKey::new, which lowercases the command
get_mapping(command, from_os, to_os) ==
    LET key == <<to_lowercase(command), from_os, to_os>>
    IN  IF key \in DOMAIN COMMAND_MAPPINGS THEN Some(COMMAND_MAPPINGS[key]) ELSE None

is_native_command(command, os) ==
    LET cmd_lower == to_lowercase(command)
    IN  CASE os = "Windows" -> cmd_lower \in WindowsNativeCommands
          [] os \in {"Linux", "FreeBSD", "OpenBSD", "NetBSD", "Solaris", "Android"} ->
                cmd_lower \in UnixNativeCommands
          [] os \in {"MacOS", "Ios"} -> cmd_lower \in MacNativeCommands
          [] OTHER -> FALSE

\* the first word of a target command ("" when it has none)
target_base(target_cmd) ==
    LET words == split_whitespace(target_cmd)
    IN  IF words = <<>> THEN "" ELSE words[1]

\* A faulty variant of is_target_command_for_os: the entries are filtered by their
\* source system instead of their target system
is_target_command_by_source_os(command, target_os) ==
    LET cmd_lower == to_lowercase(command)
    IN  \E key \in DOMAIN COMMAND_MAPPINGS :
            /\ key[2] = target_os
            /\ to_lowercase(target_base(COMMAND_MAPPINGS[key].target_cmd)) = cmd_lower

is_target_command_for_os(command, target_os) ==
    LET cmd_lower == to_lowercase(command)
    IN  \E key \in DOMAIN COMMAND_MAPPINGS :
            /\ key[3] = target_os
            /\ to_lowercase(target_base(COMMAND_MAPPINGS[key].target_cmd)) = cmd_lower

-----------------------------------------------------------------------------
(* engine.rs *)

Ok(v) == <<"Ok", v>>
Err(e) == <<"Err", e>>
EmptyCommand == <<"EmptyCommand">>
CommandNotFound(cmd) == <<"CommandNotFound", cmd>>

IsOk(r) == r[1] = "Ok"
IsErr(r) == r[1] = "Err"

\* TranslationResult::new
TranslationResultNew(command, original, from_os, to_os) ==
    [command |-> command,
     original |-> original,
     from_os |-> from_os,
     to_os |-> to_os,
     warnings |-> <<>>,
     had_unmapped_flags |-> FALSE]

\* parse_command: the lowercased first word and the words after it
parse_command(input) ==
    LET parts == split_whitespace(trim(input))
    IN  IF parts = <<>> THEN <<"", <<>>>>
        ELSE <<to_lowercase(parts[1]), Tail(parts)>>

\* what a rule that matches the whole token emits
exact_match_output(fm) ==
    IF fm.target # "" THEN split_whitespace(fm.target) ELSE <<>>

\* what a rule whose source is a prefix of the token emits
prefix_match_output(a, fm) ==
    LET value == SubSeq(a, Len(fm.source) + 1, Len(a))
    IN  IF fm.target # ""
        THEN IF value = "" THEN <<fm.target>>
             ELSE LET value_clean ==
                          trim_start_matches(trim_start_matches(value, ":"), "=")
                  IN  <<fm.target \o " " \o value_clean>>
        ELSE <<>>

is_exact_match(a, fm) ==
    a = fm.source \/ to_lowercase(a) = to_lowercase(fm.source)

\* A faulty variant of scan_flag_mappings: a rule equal to the token is preferred
\* to an earlier rule that is only a prefix of it
scan_exact_first(a, flag_mappings, i) ==
    LET exact == {j \in i..Len(flag_mappings) : is_exact_match(a, flag_mappings[j])}
        prefix == {j \in i..Len(flag_mappings) :
                      starts_with(a, flag_mappings[j].source)}
        Least(S) == CHOOSE x \in S : \A y \in S : x <= y
    IN  IF exact # {}
        THEN [found |-> TRUE, out |-> exact_match_output(flag_mappings[Least(exact)])]
        ELSE IF prefix # {}
        THEN [found |-> TRUE,
              out |-> prefix_match_output(a, flag_mappings[Least(prefix)])]
        ELSE [found |-> FALSE, out |-> <<>>]

\* the inner loop of translate_flags: the rules are tried in declared order
\* from rule i on, and the first that matches decides the output
RECURSIVE scan_flag_mappings(_, _, _)
scan_flag_mappings(a, flag_mappings, i) ==
    IF i > Len(flag_mappings) THEN [found |-> FALSE, out |-> <<>>]
    ELSE LET fm == flag_mappings[i]
         IN  IF is_exact_match(a, fm)
             THEN [found |-> TRUE, out |-> exact_match_output(fm)]
             ELSE IF starts_with(a, fm.source)
             THEN [found |-> TRUE, out |-> prefix_match_output(a, fm)]
             ELSE scan_flag_mappings(a, flag_mappings, i + 1)

\* A faulty variant of unmapped_flag: a kept token is reported whatever it starts with
unmapped_flag_always_warns(a, mapping, acc) ==
    IF mapping.preserve_unmapped_flags
    THEN [translated_args |-> Append(acc.translated_args, a),
          result |-> [acc.result EXCEPT
                          !.warnings = Append(@, "Flag '" \o a \o "' was not translated"),
                          !.had_unmapped_flags = TRUE]]
    ELSE [translated_args |-> acc.translated_args,
          result |-> [acc.result EXCEPT
                          !.warnings = Append(@, "Flag '" \o a \o "' was dropped"),
                          !.had_unmapped_flags = TRUE]]

\* the handling of an argument no rule matched
unmapped_flag(a, mapping, acc) ==
    IF mapping.preserve_unmapped_flags
    THEN [translated_args |-> Append(acc.translated_args, a),
          result |->
              IF starts_with(a, "-") \/ starts_with(a, "/")
              THEN [acc.result EXCEPT
                        !.warnings = Append(@, "Flag '" \o a \o "' was not translated"),
                        !.had_unmapped_flags = TRUE]
              ELSE acc.result]
    ELSE [translated_args |-> acc.translated_args,
          result |-> [acc.result EXCEPT
                          !.warnings = Append(@, "Flag '" \o a \o "' was dropped"),
                          !.had_unmapped_flags = TRUE]]

\* the outer loop of translate_flags, from argument k on
RECURSIVE translate_flags_from(_, _, _, _)
translate_flags_from(args, k, mapping, acc) ==
    IF k > Len(args) THEN acc
    ELSE LET m == scan_flag_mappings(args[k], mapping.flag_mappings, 1)
         IN  translate_flags_from(args, k + 1, mapping,
                 IF m.found
                 THEN [acc EXCEPT !.translated_args = @ \o m.out]
                 ELSE unmapped_flag(args[k], mapping, acc))

\* translate_flags returns the translated arguments and updates result in place:
\* the model returns both
translate_flags(args, mapping, result) ==
    translate_flags_from(args, 1, mapping,
                         [translated_args |-> <<>>, result |-> result])

\* A faulty variant of final_command: the separating space is added even when no
\* translated argument follows
final_command_trailing_space(mapping, translated_args) ==
    mapping.target_cmd \o " " \o join(translated_args, " ")

\* target_cmd, then the translated arguments when there are any
final_command(mapping, translated_args) ==
    IF translated_args # <<>>
    THEN mapping.target_cmd \o " " \o join(translated_args, " ")
    ELSE mapping.target_cmd

\* translate_command when the verb is native to both systems and the table has
\* an entry: flags are translated, the notes are not read
translate_native_with_mapping(trimmed, args, mapping, from_os, to_os) ==
    LET t == translate_flags(args, mapping,
                             TranslationResultNew("", trimmed, from_os, to_os))
    IN  Ok([t.result EXCEPT !.command = final_command(mapping, t.translated_args)])

\* translate_command once the lookup has found an entry
translate_with_mapping(trimmed, args, mapping, from_os, to_os) ==
    LET t == translate_flags(args, mapping,
                             TranslationResultNew("", trimmed, from_os, to_os))
        result == [t.result EXCEPT !.command = final_command(mapping, t.translated_args)]
    IN  Ok(IF mapping.notes # None
           THEN [result EXCEPT !.warnings = Append(@, mapping.notes[1])]
           ELSE result)

\* A faulty variant of passthrough: the words of the input are joined by single spaces
passthrough_collapsed(trimmed, from_os, to_os, warnings) ==
    Ok([TranslationResultNew(join(split_whitespace(trimmed), " "), trimmed,
                             from_os, to_os) EXCEPT
            !.warnings = warnings])

\* a result that returns the trimmed input, with the given warnings
passthrough(trimmed, from_os, to_os, warnings) ==
    Ok([TranslationResultNew(trimmed, trimmed, from_os, to_os) EXCEPT
            !.warnings = warnings])

\* A faulty variant of native_to_target_only: the two systems are exchanged
native_to_source_only(command_name, from_os, to_os) ==
    is_native_command(command_name, from_os) /\ ~is_native_command(command_name, to_os)

\* the verb is a command of the target system and not of the source system
native_to_target_only(command_name, from_os, to_os) ==
    is_native_command(command_name, to_os) /\ ~is_native_command(command_name, from_os)

\* A faulty variant of native_to_both: the rule for commands of both systems is
\* never applied
native_to_both_never(command_name, from_os, to_os) == FALSE

\* the verb is a command of both systems
native_to_both(command_name, from_os, to_os) ==
    is_native_command(command_name, to_os) /\ is_native_command(command_name, from_os)

\* A faulty variant of not_found_fallback: the scan of the target commands comes
\* before the test for two Unix-like systems
fallback_target_first(trimmed, command_name, from_os, to_os) ==
    IF is_target_command_for_os(command_name, to_os)
    THEN passthrough(trimmed, from_os, to_os,
             <<"Command '" \o command_name \o "' appears to already be a "
                 \o OsDisplay(to_os) \o " command, passed through unchanged">>)
    ELSE IF is_unix_like(from_os) /\ is_unix_like(to_os)
    THEN passthrough(trimmed, from_os, to_os,
             <<"Command '" \o command_name
                 \o "' passed through (Unix-like OS compatibility assumed)">>)
    ELSE Err(CommandNotFound(command_name))

\* translate_command when the lookup finds no entry
not_found_fallback(trimmed, command_name, from_os, to_os) ==
    IF is_unix_like(from_os) /\ is_unix_like(to_os)
    THEN passthrough(trimmed, from_os, to_os,
             <<"Command '" \o command_name
                 \o "' passed through (Unix-like OS compatibility assumed)">>)
    ELSE IF is_target_command_for_os(command_name, to_os)
    THEN passthrough(trimmed, from_os, to_os,
             <<"Command '" \o command_name \o "' appears to already be a "
                 \o OsDisplay(to_os) \o " command, passed through unchanged">>)
    ELSE Err(CommandNotFound(command_name))

\* translate_command from the parse on: the input is not blank and the systems differ
translate_parsed(trimmed, from_os, to_os) ==
    LET parsed == parse_command(trimmed)
        command_name == parsed[1]
        args == parsed[2]
        mapping == get_mapping(command_name, from_os, to_os)
    IN  IF command_name = "" THEN Err(EmptyCommand)
        ELSE IF native_to_target_only(command_name, from_os, to_os)
        THEN passthrough(trimmed, from_os, to_os,
                 <<"Command '" \o command_name \o "' is already in "
                     \o OsDisplay(to_os) \o " format, passed through unchanged">>)
        ELSE IF native_to_both(command_name, from_os, to_os)
        THEN IF mapping # None
             THEN translate_native_with_mapping(trimmed, args, mapping[1], from_os, to_os)
             ELSE passthrough(trimmed, from_os, to_os, <<>>)
        ELSE IF mapping = None
        THEN not_found_fallback(trimmed, command_name, from_os, to_os)
        ELSE translate_with_mapping(trimmed, args, mapping[1], from_os, to_os)

\* A faulty variant of translate_command: the systems are compared before the
\* input is tested for being blank
translate_command_same_os_first(input, from_os, to_os) ==
    LET trimmed == trim(input)
    IN  IF from_os = to_os THEN passthrough(trimmed, from_os, to_os, <<>>)
        ELSE IF trimmed = "" THEN Err(EmptyCommand)
        ELSE translate_parsed(trimmed, from_os, to_os)

translate_command(input, from_os, to_os) ==
    LET trimmed == trim(input)
    IN  IF trimmed = "" THEN Err(EmptyCommand)
        ELSE IF from_os = to_os THEN passthrough(trimmed, from_os, to_os, <<>>)
        ELSE translate_parsed(trimmed, from_os, to_os)

COMPOUND_OPERATORS == {"&&", "||", ";", "|"}

\* A faulty variant of two_char_operator_at: no two-character operator is seen
two_char_operator_never(input, i) == FALSE

\* the test for a two-character operator at position i
two_char_operator_at(input, i) ==
    i + 1 <= Len(input) /\ SubSeq(input, i, i + 1) \in {"&&", "||"}

\* split_compound_command: the loop over the characters from position i on
RECURSIVE split_compound_from(_, _, _, _)
split_compound_from(input, i, current, parts) ==
    LET flushed == IF current # "" THEN Append(parts, current) ELSE parts
    IN  IF i > Len(input) THEN flushed
        ELSE IF two_char_operator_at(input, i)
        THEN split_compound_from(input, i + 2, "", Append(flushed, SubSeq(input, i, i + 1)))
        ELSE IF CharAt(input, i) \in {"|", ";"}
        THEN split_compound_from(input, i + 1, "", Append(flushed, CharAt(input, i)))
        ELSE split_compound_from(input, i + 1, current \o CharAt(input, i), parts)

split_compound_command(input) == split_compound_from(input, 1, "", <<>>)

\* the first word of a segment, or the segment when it has none
first_word_or(segment) ==
    LET words == split_whitespace(segment)
    IN  IF words = <<>> THEN segment ELSE words[1]

\* A faulty variant of segment_translated: the warnings of a later segment are
\* put before those collected so far
segment_translated_warnings_first(cmd_result, acc) ==
    [acc EXCEPT
        !.translated_parts = Append(@, cmd_result.command),
        !.result.warnings = cmd_result.warnings \o @,
        !.result.had_unmapped_flags = @ \/ cmd_result.had_unmapped_flags]

\* the Ok arm of the loop of translate_compound_command
segment_translated(cmd_result, acc) ==
    [acc EXCEPT
        !.translated_parts = Append(@, cmd_result.command),
        !.result.warnings = @ \o cmd_result.warnings,
        !.result.had_unmapped_flags = @ \/ cmd_result.had_unmapped_flags]

\* A faulty variant of segment_not_found: the error of the segment ends the call
segment_not_found_aborts(trimmed_part, acc) ==
    [acc EXCEPT !.error = Some(CommandNotFound(first_word_or(trimmed_part)))]

\* the CommandNotFound arm of the loop of translate_compound_command
segment_not_found(trimmed_part, acc) ==
    [acc EXCEPT
        !.translated_parts = Append(@, trimmed_part),
        !.result.warnings =
            Append(@, "Command '" \o first_word_or(trimmed_part)
                        \o "' was not translated")]

\* A faulty variant of is_compound_operator: an operator is taken for a segment
is_compound_operator_never(trimmed_part) == FALSE

\* the test that tells an operator from a segment
is_compound_operator(trimmed_part) == trimmed_part \in COMPOUND_OPERATORS

\* the loop of translate_compound_command over the parts, from part k on;
\* acc holds translated_parts, the result being built and the error that ended
\* the loop, if any
RECURSIVE translate_parts_from(_, _, _, _, _)
translate_parts_from(parts, k, from_os, to_os, acc) ==
    IF k > Len(parts) \/ acc.error # None THEN acc
    ELSE LET trimmed_part == trim(parts[k])
             r == translate_command(trimmed_part, from_os, to_os)
         IN  translate_parts_from(parts, k + 1, from_os, to_os,
                 IF is_compound_operator(trimmed_part)
                 THEN [acc EXCEPT !.translated_parts = Append(@, trimmed_part)]
                 ELSE IF trimmed_part = "" THEN acc
                 ELSE IF IsOk(r) THEN segment_translated(r[2], acc)
                 ELSE IF r[2][1] = "CommandNotFound"
                 THEN segment_not_found(trimmed_part, acc)
                 ELSE [acc EXCEPT !.error = Some(r[2])])

\* A faulty variant of single_part: a line of one part goes through the loop too
single_part_never(parts) == FALSE

\* the test that sends a line of one part to translate_command
single_part(parts) == Len(parts) = 1

translate_compound_command(input, from_os, to_os) ==
    LET trimmed == trim(input)
        parts == split_compound_command(trimmed)
        done == translate_parts_from(parts, 1, from_os, to_os,
                    [translated_parts |-> <<>>,
                     result |-> TranslationResultNew("", trimmed, from_os, to_os),
                     error |-> None])
    IN  IF trimmed = "" THEN Err(EmptyCommand)
        ELSE IF from_os = to_os THEN passthrough(trimmed, from_os, to_os, <<>>)
        ELSE IF single_part(parts) THEN translate_command(trimmed, from_os, to_os)
        ELSE IF done.error # None THEN Err(done.error[1])
        ELSE Ok([done.result EXCEPT !.command = join(done.translated_parts, " ")])

-----------------------------------------------------------------------------
(* path.rs: translation of file paths *)

Chars(s) == {CharAt(s, i) : i \in 1..Len(s)}

is_ascii_alphabetic(c) == c \in Chars(AsciiUpper) \cup Chars(AsciiLower)

UpperTable == [c \in Chars(AsciiLower) |->
                  CharAt(AsciiUpper, CHOOSE i \in 1..26 : CharAt(AsciiLower, i) = c)]

to_ascii_uppercase(c) == IF c \in DOMAIN UpperTable THEN UpperTable[c] ELSE c

to_ascii_lowercase(c) == to_lowercase_char(c)

\* str::replace for a pattern of one character
RECURSIVE replace(_, _, _)
replace(s, from, to) ==
    IF s = "" THEN ""
    ELSE (IF CharAt(s, 1) = from THEN to ELSE CharAt(s, 1)) \o replace(Tail(s), from, to)

\* str::replacen(pat, to, 1): the first occurrence of pat, if any, is replaced
RECURSIVE replacen_once(_, _, _)
replacen_once(s, pat, to) ==
    IF Len(s) < Len(pat) THEN s
    ELSE IF starts_with(s, pat) THEN to \o SubSeq(s, Len(pat) + 1, Len(s))
    ELSE CharAt(s, 1) \o replacen_once(Tail(s), pat, to)

\* s.split(sep).filter(|s| !s.is_empty()).collect()
RECURSIVE split_non_empty_from(_, _, _, _)
split_non_empty_from(s, sep, cur, acc) ==
    LET flushed == IF cur # "" THEN Append(acc, cur) ELSE acc
    IN  IF s = "" THEN flushed
        ELSE IF CharAt(s, 1) = sep THEN split_non_empty_from(Tail(s), sep, "", flushed)
        ELSE split_non_empty_from(Tail(s), sep, cur \o CharAt(s, 1), acc)

\* A faulty variant of split_non_empty: the string is not split at all
split_whole(s, sep) == IF s = "" THEN <<>> ELSE <<s>>

split_non_empty(s, sep) == split_non_empty_from(s, sep, "", <<>>)

PathTranslationNew(path, original, from_os, to_os) ==
    [path |-> path, original |-> original, from_os |-> from_os, to_os |-> to_os,
     drive_translated |-> FALSE, warnings |-> <<>>]

EmptyPath == <<"EmptyPath">>

\* A faulty variant of get_drive_mapping: the letter keeps its case
get_drive_mapping_keep_case(drive) == "/mnt/" \o drive

get_drive_mapping(drive) == "/mnt/" \o to_ascii_lowercase(drive)

\* The strings of the model are ASCII. Two characters that no table and no
\* rule of the translator uses stand for characters outside ASCII: `^` for
\* U+00E9 (e with acute accent, 2 bytes in UTF-8) and `@` for U+20AC (the euro
\* sign, 3 bytes). Neither is whitespace, an ASCII letter, or a separator.
e_acute == "^"

euro_sign == "@"

\* the bytes of the UTF-8 encoding of a character
utf8_width(c) == IF c = e_acute THEN 2 ELSE IF c = euro_sign THEN 3 ELSE 1

\* str::len, the length in bytes
RECURSIVE byte_len(_)
byte_len(s) == IF s = "" THEN 0 ELSE utf8_width(CharAt(s, 1)) + byte_len(Tail(s))

\* the byte offset n falls between two characters of s, or at one of its ends
is_char_boundary(s, n) == \E k \in 0..Len(s) : byte_len(SubSeq(s, 1, k)) = n

\* the outcome of a call that panics instead of returning
Panic == <<"Panic">>

\* the outcome of a call that returns the plain value v
Returned(v) == <<"Returned", v>>

\* A faulty variant of drive_test_out_of_bounds: chars[0] and chars[1] are both
\* read before either is tested
drive_test_out_of_bounds_eager(path) == byte_len(path) >= 2 /\ Len(path) < 2

\* the drive letter test reads chars[1] past the end of chars: the test is made
\* when the path has 2 bytes or more, and chars[1] is read only when chars[0] is
\* an ASCII letter
drive_test_out_of_bounds(path) ==
    /\ byte_len(path) >= 2
    /\ is_ascii_alphabetic(CharAt(path, 1))
    /\ Len(path) < 2

\* the test for a drive letter that is_windows_path and windows_to_unix make
has_drive_letter(path) ==
    /\ byte_len(path) >= 2
    /\ is_ascii_alphabetic(CharAt(path, 1))
    /\ CharAt(path, 2) = ":"

is_windows_path(path) ==
    \/ has_drive_letter(path)
    \/ starts_with(path, "\\\\")
    \/ contains(path, "\\")

is_unix_path(path) ==
    \/ starts_with(path, "/")
    \/ starts_with(path, "~/")
    \/ starts_with(path, "./")
    \/ starts_with(path, "../")

\* windows_to_unix panics: its drive letter test reads past the end, or the
\* slice [2..] it takes after a drive letter does not start at a character
windows_to_unix_panics(path) ==
    \/ drive_test_out_of_bounds(path)
    \/ has_drive_letter(path) /\ ~is_char_boundary(path, 2)

\* windows_to_unix returns the path and updates result in place: the model
\* returns both
windows_to_unix(path, result) ==
    LET drive == has_drive_letter(path)
        p1 == IF drive
              THEN get_drive_mapping(CharAt(path, 1)) \o SubSeq(path, 3, Len(path))
              ELSE path
        unc == starts_with(p1, "\\\\")
        p2 == IF unc THEN replacen_once(p1, "\\\\", "//") ELSE p1
        p3 == replace(p2, "\\", "/")
        parts == split_non_empty(p3, "/")
        p4 == IF starts_with(p3, "//")
              THEN "//" \o join(split_non_empty(SubSeq(p3, 3, Len(p3)), "/"), "/")
              ELSE IF \/ starts_with(path, "/")
                      \/ starts_with(path, "\\")
                      \/ (Len(path) >= 2 /\ CharAt(path, 2) = ":")
              THEN "/" \o join(parts, "/")
              ELSE join(parts, "/")
    IN  [path |-> p4,
         result |-> [result EXCEPT
             !.drive_translated = @ \/ drive,
             !.warnings = IF unc
                          THEN Append(@, "UNC path converted to network path format")
                          ELSE @]]

\* A faulty variant of mount_drive: the letter keeps its case
mount_drive_keep_case(drive) == drive

\* the drive letter unix_to_windows makes of the letter of a mount point
mount_drive(drive) == to_ascii_uppercase(drive)

\* unix_to_windows returns the path and updates result in place: the model
\* returns both
unix_to_windows(path, result) ==
    LET mnt == starts_with(path, "/mnt/") /\ byte_len(path) >= 6
        mount == /\ mnt
                 /\ is_ascii_alphabetic(CharAt(path, 6))
                 /\ (Len(path) < 7 \/ CharAt(path, 7) = "/")
        home == ~mnt /\ starts_with(path, "/home/")
        tilde_slash == ~mnt /\ ~home /\ starts_with(path, "~/")
        tilde == ~mnt /\ ~home /\ ~tilde_slash /\ path = "~"
        root == /\ ~mnt /\ ~home /\ ~tilde_slash /\ ~tilde
                /\ starts_with(path, "/") /\ ~starts_with(path, "//")
        network == /\ ~mnt /\ ~home /\ ~tilde_slash /\ ~tilde /\ ~root
                   /\ starts_with(path, "//")
        p1 == IF mount
              THEN mount_drive(CharAt(path, 6)) \o ":" \o SubSeq(path, 7, Len(path))
              ELSE IF home THEN "C:\\Users" \o SubSeq(path, 6, Len(path))
              ELSE IF tilde_slash THEN "%USERPROFILE%" \o SubSeq(path, 2, Len(path))
              ELSE IF tilde THEN "%USERPROFILE%"
              ELSE IF root THEN "C:" \o path
              ELSE IF network THEN replacen_once(path, "//", "\\\\")
              ELSE path
        p2 == replace(p1, "/", "\\")
        p3 == IF starts_with(p2, "\\\\")
              THEN "\\\\" \o join(split_non_empty(SubSeq(p2, 3, Len(p2)), "\\"), "\\")
              ELSE join(split_non_empty(p2, "\\"), "\\")
    IN  [path |-> p3,
         result |-> [result EXCEPT
             !.drive_translated = @ \/ mount \/ home \/ root,
             !.warnings =
                 IF home THEN Append(@, "/home mapped to C:\\Users")
                 ELSE IF tilde_slash \/ tilde THEN Append(@, "~ translated to %USERPROFILE%")
                 ELSE IF root THEN Append(@, "Root path mapped to C: drive")
                 ELSE @]]

\* A faulty variant of auto_detect: the Unix shape is tested first
auto_detect_unix_first(path, result) ==
    IF is_unix_path(path) THEN unix_to_windows(path, result)
    ELSE windows_to_unix(path, result)

\* the fallback of translate_path for the pairs of systems no rule names
auto_detect(path, result) ==
    IF is_windows_path(path) THEN windows_to_unix(path, result)
    ELSE unix_to_windows(path, result)

translate_path(path, from_os, to_os) ==
    LET trimmed == trim(path)
        result == PathTranslationNew("", trimmed, from_os, to_os)
        translated ==
            IF from_os = "Windows" /\ is_unix_like(to_os)
            THEN windows_to_unix(trimmed, result)
            ELSE IF is_unix_like(from_os) /\ to_os = "Windows"
            THEN unix_to_windows(trimmed, result)
            ELSE IF is_unix_like(from_os) /\ is_unix_like(to_os)
            THEN [path |-> trimmed, result |-> result]
            ELSE auto_detect(trimmed, result)
        panics ==
            IF from_os = "Windows" /\ is_unix_like(to_os)
            THEN windows_to_unix_panics(trimmed)
            ELSE IF is_unix_like(from_os) /\ (to_os = "Windows" \/ is_unix_like(to_os))
            THEN FALSE
            ELSE \/ drive_test_out_of_bounds(trimmed)
                 \/ is_windows_path(trimmed) /\ windows_to_unix_panics(trimmed)
    IN  IF trimmed = "" THEN Err(EmptyPath)
        ELSE IF from_os = to_os
        THEN Ok(PathTranslationNew(trimmed, trimmed, from_os, to_os))
        ELSE IF panics THEN Panic
        ELSE Ok([translated.result EXCEPT !.path = translated.path])

-----------------------------------------------------------------------------
(* env.rs: translation of references to environment variables *)

RECURSIVE to_uppercase(_)
to_uppercase(s) ==
    IF s = "" THEN "" ELSE to_ascii_uppercase(CharAt(s, 1)) \o to_uppercase(Tail(s))

is_alphanumeric(c) == is_ascii_alphabetic(c) \/ c \in Chars("0123456789")

\* chars[i..].iter().position(|&c| c == wanted), as an index into chars; 0 for None
RECURSIVE position_from(_, _, _)
position_from(chars, i, wanted) ==
    IF i > Len(chars) THEN 0
    ELSE IF CharAt(chars, i) = wanted THEN i
    ELSE position_from(chars, i + 1, wanted)

ENV_VAR_MAPPINGS ==
    ("USERPROFILE" :> "HOME") @@ ("USERNAME" :> "USER")
    @@ ("APPDATA" :> "XDG_CONFIG_HOME") @@ ("LOCALAPPDATA" :> "XDG_DATA_HOME")
    @@ ("TEMP" :> "TMPDIR") @@ ("TMP" :> "TMPDIR")
    @@ ("COMPUTERNAME" :> "HOSTNAME") @@ ("CD" :> "PWD") @@ ("COMSPEC" :> "SHELL")

ENV_VAR_MAPPINGS_REVERSE ==
    ("HOME" :> "USERPROFILE") @@ ("USER" :> "USERNAME")
    @@ ("XDG_CONFIG_HOME" :> "APPDATA") @@ ("XDG_DATA_HOME" :> "LOCALAPPDATA")
    @@ ("XDG_CACHE_HOME" :> "LOCALAPPDATA") @@ ("TMPDIR" :> "TEMP")
    @@ ("HOSTNAME" :> "COMPUTERNAME") @@ ("PWD" :> "CD") @@ ("SHELL" :> "COMSPEC")

\* A faulty variant of mapped_name: the name is looked up as it is written
mapped_name_exact_case(mappings, var_name) ==
    IF var_name \in DOMAIN mappings THEN mappings[var_name] ELSE var_name

\* the name a reference is rewritten to: the dictionary's, or its own
mapped_name(mappings, var_name) ==
    IF to_uppercase(var_name) \in DOMAIN mappings
    THEN mappings[to_uppercase(var_name)]
    ELSE var_name

\* translate_windows_to_unix_env: the loop from position i on
RECURSIVE windows_to_unix_env_from(_, _, _)
windows_to_unix_env_from(chars, i, result) ==
    IF i > Len(chars) THEN result
    ELSE LET end == position_from(chars, i + 1, "%")
         IN  IF CharAt(chars, i) = "%" /\ end # 0
             THEN windows_to_unix_env_from(chars, end + 1,
                      result \o "$"
                             \o mapped_name(ENV_VAR_MAPPINGS, SubSeq(chars, i + 1, end - 1)))
             ELSE windows_to_unix_env_from(chars, i + 1, result \o CharAt(chars, i))

translate_windows_to_unix_env(input) == windows_to_unix_env_from(input, 1, "")

\* the end of the run of name characters that starts at position i
RECURSIVE name_end(_, _)
name_end(chars, i) ==
    IF i <= Len(chars) /\ (is_alphanumeric(CharAt(chars, i)) \/ CharAt(chars, i) = "_")
    THEN name_end(chars, i + 1)
    ELSE i

\* translate_unix_to_windows_env: the loop from position i on
RECURSIVE unix_to_windows_env_from(_, _, _)
unix_to_windows_env_from(chars, i, result) ==
    IF i > Len(chars) THEN result
    ELSE LET dollar == CharAt(chars, i) = "$" /\ i + 1 <= Len(chars)
             brace == dollar /\ CharAt(chars, i + 1) = "{"
             close == position_from(chars, i + 2, "}")
             bare == /\ dollar /\ ~brace
                     /\ (is_alphanumeric(CharAt(chars, i + 1)) \/ CharAt(chars, i + 1) = "_")
             end == name_end(chars, i + 1)
         IN  IF brace /\ close # 0
             THEN unix_to_windows_env_from(chars, close + 1,
                      result \o "%"
                             \o mapped_name(ENV_VAR_MAPPINGS_REVERSE,
                                            SubSeq(chars, i + 2, close - 1))
                             \o "%")
             ELSE IF bare
             THEN unix_to_windows_env_from(chars, end,
                      result \o "%"
                             \o mapped_name(ENV_VAR_MAPPINGS_REVERSE,
                                            SubSeq(chars, i + 1, end - 1))
                             \o "%")
             ELSE unix_to_windows_env_from(chars, i + 1, result \o CharAt(chars, i))

translate_unix_to_windows_env(input) == unix_to_windows_env_from(input, 1, "")

\* A faulty variant of translate_env_vars: only Windows references are rewritten
translate_env_vars_one_way(input, from_os, to_os) ==
    IF from_os = "Windows" /\ is_unix_like(to_os)
    THEN translate_windows_to_unix_env(input)
    ELSE input

translate_env_vars(input, from_os, to_os) ==
    IF from_os = to_os THEN input
    ELSE IF from_os = "Windows" /\ is_unix_like(to_os)
    THEN translate_windows_to_unix_env(input)
    ELSE IF is_unix_like(from_os) /\ to_os = "Windows"
    THEN translate_unix_to_windows_env(input)
    ELSE input

-----------------------------------------------------------------------------
(* distro.rs and package_manager.rs: package manager commands *)

PackageManager ==
    {"Apt", "Yum", "Dnf", "Pacman", "Zypper", "Apk", "Emerge", "Xbps", "Nix", "Generic"}

\* impl fmt::Display for PackageManager
PackageManagerDisplay ==
    [pm \in PackageManager |->
        CASE pm = "Apt" -> "apt" [] pm = "Yum" -> "yum" [] pm = "Dnf" -> "dnf"
          [] pm = "Pacman" -> "pacman" [] pm = "Zypper" -> "zypper"
          [] pm = "Apk" -> "apk" [] pm = "Emerge" -> "emerge"
          [] pm = "Xbps" -> "xbps" [] pm = "Nix" -> "nix"
          [] pm = "Generic" -> "generic"]

PackageOperation ==
    {"Install", "Remove", "Update", "Upgrade", "Search", "Info", "List", "Clean",
     "AutoRemove"}

\* impl fmt::Display for PackageOperation
PackageOperationDisplay == [operation \in PackageOperation |-> to_lowercase(operation)]

\* PackageTranslationResult::new
PackageTranslationResultNew(command, original, from_pm, to_pm) ==
    [command |-> command, original |-> original, from_pm |-> from_pm,
     to_pm |-> to_pm, warnings |-> <<>>, requires_sudo |-> FALSE]

\* enum PackageTranslationError
NotPackageManagerCommand(cmd) == <<"NotPackageManagerCommand", cmd>>

UnsupportedOperation(operation) == <<"UnsupportedOperation", operation>>

PackageEmptyCommand == <<"EmptyCommand">>

\* PackageFlagMapping::with_description; the description is never read by the
\* translation and is left out
PackageFlagMappingNew(source, target) == [source |-> source, target |-> target]

\* OperationMapping::new; the flag_mappings field is never read
OperationMappingNew(command, requires_sudo) ==
    [command |-> command, requires_sudo |-> requires_sudo, notes |-> None]

\* OperationMapping::with_notes
with_notes(mapping, notes) == [mapping EXCEPT !.notes = Some(notes)]

OPERATION_MAPPINGS ==
       <<"Apt", "Install">> :> OperationMappingNew("apt install", TRUE)
    @@ <<"Apt", "Remove">> :> OperationMappingNew("apt remove", TRUE)
    @@ <<"Apt", "Update">> :> OperationMappingNew("apt update", TRUE)
    @@ <<"Apt", "Upgrade">> :> OperationMappingNew("apt upgrade", TRUE)
    @@ <<"Apt", "Search">> :> OperationMappingNew("apt search", FALSE)
    @@ <<"Apt", "Info">> :> OperationMappingNew("apt show", FALSE)
    @@ <<"Apt", "List">> :> OperationMappingNew("apt list --installed", FALSE)
    @@ <<"Apt", "Clean">> :> OperationMappingNew("apt clean", TRUE)
    @@ <<"Apt", "AutoRemove">> :> OperationMappingNew("apt autoremove", TRUE)
    @@ <<"Yum", "Install">> :> OperationMappingNew("yum install", TRUE)
    @@ <<"Yum", "Remove">> :> OperationMappingNew("yum remove", TRUE)
    @@ <<"Yum", "Update">> :> OperationMappingNew("yum check-update", FALSE)
    @@ <<"Yum", "Upgrade">> :> OperationMappingNew("yum update", TRUE)
    @@ <<"Yum", "Search">> :> OperationMappingNew("yum search", FALSE)
    @@ <<"Yum", "Info">> :> OperationMappingNew("yum info", FALSE)
    @@ <<"Yum", "List">> :> OperationMappingNew("yum list installed", FALSE)
    @@ <<"Yum", "Clean">> :> OperationMappingNew("yum clean all", TRUE)
    @@ <<"Yum", "AutoRemove">> :> OperationMappingNew("yum autoremove", TRUE)
    @@ <<"Dnf", "Install">> :> OperationMappingNew("dnf install", TRUE)
    @@ <<"Dnf", "Remove">> :> OperationMappingNew("dnf remove", TRUE)
    @@ <<"Dnf", "Update">> :> OperationMappingNew("dnf check-update", FALSE)
    @@ <<"Dnf", "Upgrade">> :> OperationMappingNew("dnf upgrade", TRUE)
    @@ <<"Dnf", "Search">> :> OperationMappingNew("dnf search", FALSE)
    @@ <<"Dnf", "Info">> :> OperationMappingNew("dnf info", FALSE)
    @@ <<"Dnf", "List">> :> OperationMappingNew("dnf list installed", FALSE)
    @@ <<"Dnf", "Clean">> :> OperationMappingNew("dnf clean all", TRUE)
    @@ <<"Dnf", "AutoRemove">> :> OperationMappingNew("dnf autoremove", TRUE)
    @@ <<"Pacman", "Install">> :> OperationMappingNew("pacman -S", TRUE)
    @@ <<"Pacman", "Remove">> :> OperationMappingNew("pacman -R", TRUE)
    @@ <<"Pacman", "Update">> :> OperationMappingNew("pacman -Sy", TRUE)
    @@ <<"Pacman", "Upgrade">> :> OperationMappingNew("pacman -Syu", TRUE)
    @@ <<"Pacman", "Search">> :> OperationMappingNew("pacman -Ss", FALSE)
    @@ <<"Pacman", "Info">> :> OperationMappingNew("pacman -Si", FALSE)
    @@ <<"Pacman", "List">> :> OperationMappingNew("pacman -Q", FALSE)
    @@ <<"Pacman", "Clean">> :> OperationMappingNew("pacman -Sc", TRUE)
    @@ <<"Pacman", "AutoRemove">> :> with_notes(OperationMappingNew("pacman -Rs", TRUE),
            "Removes package with unused dependencies")
    @@ <<"Zypper", "Install">> :> OperationMappingNew("zypper install", TRUE)
    @@ <<"Zypper", "Remove">> :> OperationMappingNew("zypper remove", TRUE)
    @@ <<"Zypper", "Update">> :> OperationMappingNew("zypper refresh", TRUE)
    @@ <<"Zypper", "Upgrade">> :> OperationMappingNew("zypper update", TRUE)
    @@ <<"Zypper", "Search">> :> OperationMappingNew("zypper search", FALSE)
    @@ <<"Zypper", "Info">> :> OperationMappingNew("zypper info", FALSE)
    @@ <<"Zypper", "List">> :> OperationMappingNew("zypper search --installed-only", FALSE)
    @@ <<"Zypper", "Clean">> :> OperationMappingNew("zypper clean", TRUE)
    @@ <<"Zypper", "AutoRemove">> :> OperationMappingNew("zypper remove --clean-deps", TRUE)
    @@ <<"Apk", "Install">> :> OperationMappingNew("apk add", TRUE)
    @@ <<"Apk", "Remove">> :> OperationMappingNew("apk del", TRUE)
    @@ <<"Apk", "Update">> :> OperationMappingNew("apk update", TRUE)
    @@ <<"Apk", "Upgrade">> :> OperationMappingNew("apk upgrade", TRUE)
    @@ <<"Apk", "Search">> :> OperationMappingNew("apk search", FALSE)
    @@ <<"Apk", "Info">> :> OperationMappingNew("apk info", FALSE)
    @@ <<"Apk", "List">> :> OperationMappingNew("apk list --installed", FALSE)
    @@ <<"Apk", "Clean">> :> OperationMappingNew("apk cache clean", TRUE)
    @@ <<"Apk", "AutoRemove">> :> with_notes(OperationMappingNew("apk del", TRUE),
            "Use with package name and dependencies")
    @@ <<"Emerge", "Install">> :> OperationMappingNew("emerge", TRUE)
    @@ <<"Emerge", "Remove">> :> OperationMappingNew("emerge --unmerge", TRUE)
    @@ <<"Emerge", "Update">> :> OperationMappingNew("emerge --sync", TRUE)
    @@ <<"Emerge", "Upgrade">> :> OperationMappingNew("emerge --update --deep --with-bdeps=y @world", TRUE)
    @@ <<"Emerge", "Search">> :> OperationMappingNew("emerge --search", FALSE)
    @@ <<"Emerge", "Info">> :> OperationMappingNew("emerge --info", FALSE)
    @@ <<"Emerge", "List">> :> with_notes(OperationMappingNew("qlist -I", FALSE),
            "Requires portage-utils")
    @@ <<"Emerge", "Clean">> :> OperationMappingNew("emerge --depclean", TRUE)
    @@ <<"Emerge", "AutoRemove">> :> OperationMappingNew("emerge --depclean", TRUE)
    @@ <<"Xbps", "Install">> :> OperationMappingNew("xbps-install", TRUE)
    @@ <<"Xbps", "Remove">> :> OperationMappingNew("xbps-remove", TRUE)
    @@ <<"Xbps", "Update">> :> OperationMappingNew("xbps-install -S", TRUE)
    @@ <<"Xbps", "Upgrade">> :> OperationMappingNew("xbps-install -Su", TRUE)
    @@ <<"Xbps", "Search">> :> OperationMappingNew("xbps-query -Rs", FALSE)
    @@ <<"Xbps", "Info">> :> OperationMappingNew("xbps-query -R", FALSE)
    @@ <<"Xbps", "List">> :> OperationMappingNew("xbps-query -l", FALSE)
    @@ <<"Xbps", "Clean">> :> OperationMappingNew("xbps-remove -O", TRUE)
    @@ <<"Xbps", "AutoRemove">> :> OperationMappingNew("xbps-remove -o", TRUE)
    @@ <<"Nix", "Install">> :> OperationMappingNew("nix-env -i", FALSE)
    @@ <<"Nix", "Remove">> :> OperationMappingNew("nix-env -e", FALSE)
    @@ <<"Nix", "Update">> :> OperationMappingNew("nix-channel --update", FALSE)
    @@ <<"Nix", "Upgrade">> :> OperationMappingNew("nix-env -u", FALSE)
    @@ <<"Nix", "Search">> :> OperationMappingNew("nix search", FALSE)
    @@ <<"Nix", "Info">> :> OperationMappingNew("nix-env -qa --description", FALSE)
    @@ <<"Nix", "List">> :> OperationMappingNew("nix-env -q", FALSE)
    @@ <<"Nix", "Clean">> :> OperationMappingNew("nix-collect-garbage", FALSE)
    @@ <<"Nix", "AutoRemove">> :> OperationMappingNew("nix-collect-garbage -d", FALSE)

\* the entries FLAG_MAPPINGS gets by insert
EXPLICIT_FLAG_MAPPINGS ==
       <<"Apt", "Dnf", "Install">> :>
          <<PackageFlagMappingNew("-y", "-y"),
            PackageFlagMappingNew("--yes", "-y"),
            PackageFlagMappingNew("--assume-yes", "-y"),
            PackageFlagMappingNew("--no-install-recommends", "--setopt=install_weak_deps=False"),
            PackageFlagMappingNew("--reinstall", "--reinstall"),
            PackageFlagMappingNew("-q", "-q"),
            PackageFlagMappingNew("--quiet", "--quiet")>>
    @@ <<"Apt", "Yum", "Install">> :>
          <<PackageFlagMappingNew("-y", "-y"),
            PackageFlagMappingNew("--yes", "-y"),
            PackageFlagMappingNew("--assume-yes", "-y"),
            PackageFlagMappingNew("--reinstall", "reinstall"),
            PackageFlagMappingNew("-q", "-q"),
            PackageFlagMappingNew("--quiet", "--quiet")>>
    @@ <<"Apt", "Pacman", "Install">> :>
          <<PackageFlagMappingNew("-y", "--noconfirm"),
            PackageFlagMappingNew("--yes", "--noconfirm"),
            PackageFlagMappingNew("--assume-yes", "--noconfirm"),
            PackageFlagMappingNew("--no-install-recommends", "--asdeps"),
            PackageFlagMappingNew("-q", "-q"),
            PackageFlagMappingNew("--quiet", "--quiet")>>
    @@ <<"Apt", "Zypper", "Install">> :>
          <<PackageFlagMappingNew("-y", "-y"),
            PackageFlagMappingNew("--yes", "--no-confirm"),
            PackageFlagMappingNew("--assume-yes", "--non-interactive"),
            PackageFlagMappingNew("--reinstall", "--force"),
            PackageFlagMappingNew("-q", "-q")>>
    @@ <<"Dnf", "Apt", "Install">> :>
          <<PackageFlagMappingNew("-y", "-y"),
            PackageFlagMappingNew("--assumeyes", "--assume-yes"),
            PackageFlagMappingNew("--reinstall", "--reinstall"),
            PackageFlagMappingNew("-q", "-q"),
            PackageFlagMappingNew("--quiet", "--quiet")>>
    @@ <<"Yum", "Apt", "Install">> :>
          <<PackageFlagMappingNew("-y", "-y"),
            PackageFlagMappingNew("--assumeyes", "--assume-yes"),
            PackageFlagMappingNew("-q", "-q"),
            PackageFlagMappingNew("--quiet", "--quiet")>>
    @@ <<"Dnf", "Pacman", "Install">> :>
          <<PackageFlagMappingNew("-y", "--noconfirm"),
            PackageFlagMappingNew("--assumeyes", "--noconfirm"),
            PackageFlagMappingNew("-q", "-q")>>
    @@ <<"Pacman", "Apt", "Install">> :>
          <<PackageFlagMappingNew("--noconfirm", "-y"),
            PackageFlagMappingNew("--asdeps", ""),
            PackageFlagMappingNew("-q", "-q"),
            PackageFlagMappingNew("--quiet", "--quiet")>>
    @@ <<"Pacman", "Dnf", "Install">> :>
          <<PackageFlagMappingNew("--noconfirm", "-y"),
            PackageFlagMappingNew("-q", "-q")>>
    @@ <<"Apt", "Dnf", "Remove">> :>
          <<PackageFlagMappingNew("-y", "-y"),
            PackageFlagMappingNew("--yes", "-y"),
            PackageFlagMappingNew("--purge", ""),
            PackageFlagMappingNew("--auto-remove", "--noautoremove")>>
    @@ <<"Apt", "Pacman", "Remove">> :>
          <<PackageFlagMappingNew("-y", "--noconfirm"),
            PackageFlagMappingNew("--yes", "--noconfirm"),
            PackageFlagMappingNew("--purge", "-n")>>
    @@ <<"Pacman", "Apt", "Remove">> :>
          <<PackageFlagMappingNew("--noconfirm", "-y"),
            PackageFlagMappingNew("-n", "--purge"),
            PackageFlagMappingNew("-s", "--auto-remove")>>
    @@ <<"Apt", "Dnf", "Upgrade">> :>
          <<PackageFlagMappingNew("-y", "-y"),
            PackageFlagMappingNew("--yes", "-y"),
            PackageFlagMappingNew("-q", "-q")>>
    @@ <<"Apt", "Pacman", "Upgrade">> :>
          <<PackageFlagMappingNew("-y", "--noconfirm"),
            PackageFlagMappingNew("--yes", "--noconfirm")>>
    @@ <<"Pacman", "Apt", "Upgrade">> :>
          <<PackageFlagMappingNew("--noconfirm", "-y")>>
    @@ <<"Apt", "Dnf", "Search">> :>
          <<PackageFlagMappingNew("-n", ""),
            PackageFlagMappingNew("--names-only", "")>>
    @@ <<"Apt", "Pacman", "Search">> :>
          <<PackageFlagMappingNew("-n", ""),
            PackageFlagMappingNew("--names-only", "")>>

\* the managers and operations that get the verbose flag
VerboseManagers == <<"Apt", "Dnf", "Yum", "Zypper">>

VerboseKeys ==
    {<<VerboseManagers[i], VerboseManagers[j], operation>> :
        i \in 1..4, j \in 1..4, operation \in {"Install", "Remove", "Upgrade"}}
    \ {<<pm, pm, operation>> : pm \in PackageManager, operation \in PackageOperation}

\* FLAG_MAPPINGS: the inserted entries, then `-v` pushed at the end of the
\* entry of every verbose key, which is created empty when it is missing
FLAG_MAPPINGS ==
    [key \in DOMAIN EXPLICIT_FLAG_MAPPINGS \cup VerboseKeys |->
        (IF key \in DOMAIN EXPLICIT_FLAG_MAPPINGS
         THEN EXPLICIT_FLAG_MAPPINGS[key] ELSE <<>>)
        \o (IF key \in VerboseKeys
            THEN <<PackageFlagMappingNew("-v", "-v")>> ELSE <<>>)]

\* detect_package_manager returns the manager and the number of tokens it read
detect_package_manager(cmd) ==
    LET name == to_lowercase(cmd)
    IN  IF name \in {"apt", "apt-get", "aptitude"} THEN Ok(<<"Apt", 1>>)
        ELSE IF name = "yum" THEN Ok(<<"Yum", 1>>)
        ELSE IF name = "dnf" THEN Ok(<<"Dnf", 1>>)
        ELSE IF name = "pacman" THEN Ok(<<"Pacman", 1>>)
        ELSE IF name = "zypper" THEN Ok(<<"Zypper", 1>>)
        ELSE IF name = "apk" THEN Ok(<<"Apk", 1>>)
        ELSE IF name = "emerge" THEN Ok(<<"Emerge", 1>>)
        ELSE IF name \in {"xbps-install", "xbps-remove", "xbps-query"}
        THEN Ok(<<"Xbps", 1>>)
        ELSE IF name \in {"nix-env", "nix"} THEN Ok(<<"Nix", 1>>)
        ELSE Err(NotPackageManagerCommand(cmd))

\* the match arms of detect_operation, as written: a pattern and its operation.
\* The arms of one manager are tried in order against the lowercased token.
OperationArms ==
    [pm \in PackageManager |->
        CASE pm = "Apt" ->
               <<<<"install", "Install">>, <<"remove", "Remove">>,
                 <<"uninstall", "Remove">>, <<"purge", "Remove">>,
                 <<"update", "Update">>, <<"upgrade", "Upgrade">>,
                 <<"full-upgrade", "Upgrade">>, <<"dist-upgrade", "Upgrade">>,
                 <<"search", "Search">>, <<"show", "Info">>, <<"info", "Info">>,
                 <<"list", "List">>, <<"clean", "Clean">>, <<"autoclean", "Clean">>,
                 <<"autoremove", "AutoRemove">>>>
          [] pm \in {"Yum", "Dnf"} ->
               <<<<"install", "Install">>, <<"remove", "Remove">>,
                 <<"erase", "Remove">>, <<"check-update", "Update">>,
                 <<"update", "Upgrade">>, <<"upgrade", "Upgrade">>,
                 <<"search", "Search">>, <<"info", "Info">>, <<"list", "List">>,
                 <<"clean", "Clean">>, <<"autoremove", "AutoRemove">>>>
          [] pm = "Pacman" ->
               <<<<"-syu", "Upgrade">>, <<"-sy", "Update">>, <<"-s", "Install">>,
                 <<"-rs", "Remove">>, <<"-r", "Remove">>, <<"-ss", "Search">>,
                 <<"-si", "Info">>, <<"-qi", "Info">>, <<"-q", "List">>,
                 <<"-sc", "Clean">>, <<"-scc", "Clean">>>>
          [] pm = "Zypper" ->
               <<<<"install", "Install">>, <<"in", "Install">>,
                 <<"remove", "Remove">>, <<"rm", "Remove">>,
                 <<"refresh", "Update">>, <<"ref", "Update">>,
                 <<"update", "Upgrade">>, <<"up", "Upgrade">>,
                 <<"search", "Search">>, <<"se", "Search">>,
                 <<"info", "Info">>, <<"if", "Info">>,
                 <<"packages", "List">>, <<"clean", "Clean">>>>
          [] pm = "Apk" ->
               <<<<"add", "Install">>, <<"del", "Remove">>, <<"update", "Update">>,
                 <<"upgrade", "Upgrade">>, <<"search", "Search">>,
                 <<"info", "Info">>, <<"list", "List">>, <<"cache", "Clean">>>>
          [] pm = "Emerge" ->
               <<<<"", "Install">>, <<"-av", "Install">>, <<"-a", "Install">>,
                 <<"--unmerge", "Remove">>, <<"-C", "Remove">>,
                 <<"--sync", "Update">>, <<"--update", "Upgrade">>,
                 <<"-u", "Upgrade">>, <<"--search", "Search">>,
                 <<"-s", "Search">>, <<"--info", "Info">>,
                 <<"--depclean", "Clean">>>>
          [] pm = "Xbps" ->
               <<<<"-su", "Upgrade">>, <<"-s", "Install">>, <<"-rs", "Search">>,
                 <<"-r", "Info">>, <<"-l", "List">>, <<"-o", "Clean">>,
                 <<"", "Remove">>>>
          [] pm = "Nix" ->
               <<<<"-i", "Install">>, <<"-iA", "Install">>, <<"-e", "Remove">>,
                 <<"-u", "Upgrade">>, <<"-uA", "Upgrade">>, <<"-qa", "List">>>>
          [] pm = "Generic" -> <<>>]

\* the first arm from index i on whose pattern is the string op_str; 0 for none
RECURSIVE first_arm(_, _, _)
first_arm(arms, op_str, i) ==
    IF i > Len(arms) THEN 0
    ELSE IF arms[i][1] = op_str THEN i
    ELSE first_arm(arms, op_str, i + 1)

detect_operation(pm, parts) ==
    IF parts = <<>> THEN Err(NotPackageManagerCommand(""))
    ELSE LET op_str == to_lowercase(parts[1])
             arm == first_arm(OperationArms[pm], op_str, 1)
         IN  IF pm = "Pacman" /\ ~starts_with(op_str, "-")
             THEN Err(UnsupportedOperation(op_str))
             ELSE IF arm # 0 THEN Ok(OperationArms[pm][arm][2])
             ELSE IF pm = "Nix" /\ starts_with(op_str, "search") THEN Ok("Search")
             ELSE Err(UnsupportedOperation(op_str))

\* A faulty variant of no_operation_token: the missing operation is reported as
\* an unsupported one
no_operation_token_unsupported(input) == Err(UnsupportedOperation(""))

\* parse_package_command when no token follows the executable
no_operation_token(input) == Err(NotPackageManagerCommand(input))

\* parse_package_command returns the manager, the operation and the arguments
parse_package_command(input) ==
    LET trimmed == trim(input)
        parts == split_whitespace(trimmed)
        sudo == parts # <<>> /\ parts[1] = "sudo"
        detected == IF sudo /\ Len(parts) > 1
                    THEN detect_package_manager(parts[2])
                    ELSE detect_package_manager(parts[1])
        start_idx == IF sudo THEN detected[2][2] + 1 ELSE detected[2][2]
        operation == detect_operation(detected[2][1],
                                      SubSeq(parts, start_idx + 1, Len(parts)))
    IN  IF trimmed = "" \/ parts = <<>> THEN Err(PackageEmptyCommand)
        ELSE IF IsErr(detected) THEN detected
        ELSE IF start_idx >= Len(parts) THEN no_operation_token(input)
        ELSE IF IsErr(operation) THEN operation
        ELSE Ok([pm |-> detected[2][1], operation |-> operation[2],
                 args |-> SubSeq(parts, start_idx + 2, Len(parts))])

\* str::splitn(2, sep)
splitn2(s, sep) ==
    LET i == position_from(s, 1, sep)
    IN  IF i = 0 THEN <<s>> ELSE <<SubSeq(s, 1, i - 1), SubSeq(s, i + 1, Len(s))>>

\* translate_flags of package_manager.rs, the loop over the mappings of one
\* flag from index i on: whether a mapping was found and the flags it gives
RECURSIVE scan_package_flag_mappings(_, _, _)
scan_package_flag_mappings(flag, mappings, i) ==
    IF i > Len(mappings) THEN [found |-> FALSE, flags |-> <<>>]
    ELSE LET mapping == mappings[i]
             parts == splitn2(flag, "=")
         IN  IF flag = mapping.source
                \/ to_lowercase(flag) = to_lowercase(mapping.source)
             THEN [found |-> TRUE,
                   flags |-> IF mapping.target # ""
                             THEN split_whitespace(mapping.target) ELSE <<>>]
             ELSE IF /\ starts_with(flag, mapping.source)
                     /\ contains(flag, "=")
                     /\ parts[1] = mapping.source
             THEN [found |-> TRUE,
                   flags |-> IF mapping.target = "" THEN <<>>
                             ELSE IF contains(mapping.target, "=")
                             THEN <<mapping.target \o "=" \o parts[2]>>
                             ELSE <<mapping.target, parts[2]>>]
             ELSE scan_package_flag_mappings(flag, mappings, i + 1)

\* the warning translate_flags pushes for a flag that no mapping matches
no_equivalent_warning(flag, to_pm, operation) ==
    "Flag '" \o flag \o "' has no direct equivalent in "
    \o PackageManagerDisplay[to_pm] \o " for "
    \o PackageOperationDisplay[operation] \o " operation"

\* translate_flags of package_manager.rs: the translated flags and the warnings
\* pushed to the result
RECURSIVE package_translate_flags(_, _, _, _)
package_translate_flags(flags, from_pm, to_pm, operation) ==
    IF flags = <<>> THEN [flags |-> <<>>, warnings |-> <<>>]
    ELSE LET flag == Head(flags)
             flag_key == <<from_pm, to_pm, operation>>
             scanned == IF flag_key \in DOMAIN FLAG_MAPPINGS
                        THEN scan_package_flag_mappings(flag, FLAG_MAPPINGS[flag_key], 1)
                        ELSE [found |-> FALSE, flags |-> <<>>]
             rest == package_translate_flags(Tail(flags), from_pm, to_pm, operation)
         IN  IF scanned.found
             THEN [rest EXCEPT !.flags = scanned.flags \o @]
             ELSE [flags |-> <<flag>> \o rest.flags,
                   warnings |-> <<no_equivalent_warning(flag, to_pm, operation)>>
                                \o rest.warnings]

\* the closure of partition: the argument goes with the flags
is_package_flag(a) == starts_with(a, "-") \/ starts_with(a, "/")

is_package_name(a) == ~is_package_flag(a)

\* A faulty variant of flag_table_manager: the table is taken for the manager
\* detected in the input
flag_table_manager_detected(from_pm, detected_pm) == detected_pm

\* the source manager of the key translate_flags is called with
flag_table_manager(from_pm, detected_pm) == from_pm

\* A faulty variant of assemble_command: the arguments are not regrouped, the
\* package names come first
assemble_command_names_first(base, translated_flags, packages) ==
    base
    \o (IF packages # <<>> THEN " " \o join(packages, " ") ELSE "")
    \o (IF translated_flags # <<>> THEN " " \o join(translated_flags, " ") ELSE "")

\* the command after the base command: the translated flags, then the package
\* names
assemble_command(base, translated_flags, packages) ==
    base
    \o (IF translated_flags # <<>> THEN " " \o join(translated_flags, " ") ELSE "")
    \o (IF packages # <<>> THEN " " \o join(packages, " ") ELSE "")

translate_package_command(input, from_pm, to_pm) ==
    LET trimmed == trim(input)
        parsed == parse_package_command(trimmed)
        detected_pm == parsed[2].pm
        operation == parsed[2].operation
        args == parsed[2].args
        key == <<to_pm, operation>>
        mapping == OPERATION_MAPPINGS[key]
        mismatch ==
            IF detected_pm # from_pm
            THEN <<"Command appears to be for " \o PackageManagerDisplay[detected_pm]
                   \o " but was specified as " \o PackageManagerDisplay[from_pm]>>
            ELSE <<>>
        sudo == IF starts_with(trimmed, "sudo ") /\ mapping.requires_sudo
                THEN "sudo " ELSE ""
        flags == SelectSeq(args, is_package_flag)
        packages == SelectSeq(args, is_package_name)
        translated ==
            package_translate_flags(flags, flag_table_manager(from_pm, detected_pm),
                                    to_pm, operation)
        result == PackageTranslationResultNew("", trimmed, from_pm, to_pm)
    IN  IF trimmed = "" THEN Err(PackageEmptyCommand)
        ELSE IF from_pm = to_pm
        THEN Ok(PackageTranslationResultNew(trimmed, trimmed, from_pm, to_pm))
        ELSE IF IsErr(parsed) THEN parsed
        ELSE IF key \notin DOMAIN OPERATION_MAPPINGS
        THEN Err(UnsupportedOperation(PackageOperationDisplay[operation]))
        ELSE Ok([result EXCEPT
                    !.requires_sudo = mapping.requires_sudo,
                    !.command = assemble_command(sudo \o mapping.command,
                                                 translated.flags, packages),
                    !.warnings = mismatch \o translated.warnings
                                 \o (IF mapping.notes # None
                                     THEN <<mapping.notes[1]>> ELSE <<>>)])

-----------------------------------------------------------------------------
(* The calls the model makes *)

Seqs(S, n) == UNION {[1..k -> S] : k \in 0..n}

\* verbs that reach every branch of translate_command for some pair of systems
Verbs == {"dir", "DIR", "ls", "ping", "find", "cls", "help", "tree", "foo"}

ArgTokens == {"/w", "/p", "/zzz", "/o:n", "-n", "5"}

\* the systems the command lines with arguments are translated between
ArgOs == {"Windows", "Linux", "MacOS", "FreeBSD", "Unknown"}

ArgVerbs == {"dir", "Dir", "ls", "ping", "foo"}

CommandLine(verb, args) == join(<<verb>> \o args, " ")

ArgLines ==
    {CommandLine(v, a) : v \in ArgVerbs, a \in Seqs(ArgTokens, MaxArgs) \ {<<>>}}

BlankLines == {"", " ", "  ", "\t", " \t "}

WhitespaceLines == {"  dir", "dir /w  ", " ping  -n\t5 ", " foo ", "ls   -la"}

CompoundLines ==
    {"dir && cls", "dir && unknowncmd", "ls; clear", "dir | findstr test",
     "a && b || c", "&&", "dir &&", "dir&&cls", " dir /zzz  ||  foo ", "dir & cls",
     "systeminfo && dir", "dir /zzz; foo -x | cls /q", "dir && || cls", "dir|||cls",
     "foo bar", ";", "&& ||", ";;", "| ; |"}

PlainLines == Verbs \cup BlankLines \cup WhitespaceLines \cup CompoundLines

CommandCalls ==
    {[kind |-> "command", input |-> l, from_os |-> f, to_os |-> t] :
        l \in PlainLines, f \in Os, t \in Os}
    \cup
    {[kind |-> "command", input |-> l, from_os |-> f, to_os |-> t] :
        l \in ArgLines, f \in ArgOs, t \in ArgOs}

\* mappings handed to the tail of translate_command directly: built-in entries
\* and their variants with notes set and with preserve_unmapped_flags cleared
NotedMappings ==
    {[m EXCEPT !.notes = n, !.preserve_unmapped_flags = p] :
        m \in {COMMAND_MAPPINGS[<<"dir", "Windows", "Linux">>],
               COMMAND_MAPPINGS[<<"xcopy", "Windows", "Linux">>]},
        n \in {None, Some("GNU ls assumed")},
        p \in BOOLEAN}

MappingCalls ==
    {[kind |-> "mapping", input |-> CommandLine(m.source_cmd, a), mapping |-> m,
      from_os |-> "Windows", to_os |-> "Linux"] :
        m \in NotedMappings, a \in Seqs({"/w", "/p", "/zzz", "5"}, MaxArgs)}

\* the rules the generated mappings are made of
RulePool ==
    {FlagMappingNew("/o", ""), FlagMappingNew("/o", "-x"),
     FlagMappingNew("/o:n", ""), FlagMappingNew("/o:n", "-s -r"),
     FlagMappingNew("-n", "-c")}

FlagTokens == {"/o:n", "/O", "/o=5", "-n", "-n:", "x"}

FlagCalls ==
    {[kind |-> "flags", args |-> a,
      mapping |-> [CommandMappingNew("src", "dst", rules) EXCEPT
                       !.preserve_unmapped_flags = p]] :
        a \in Seqs(FlagTokens, MaxFlagArgs), rules \in Seqs(RulePool, MaxRules),
        p \in BOOLEAN}

-----------------------------------------------------------------------------
(* Specification *)

Ready(call) ==
    /\ pc = "ready"
    /\ op = "none"
    /\ arg = call
    /\ ret = <<>>

Return(name, value) ==
    /\ pc' = "done"
    /\ op' = name
    /\ ret' = value
    /\ UNCHANGED arg

TranslateCommand ==
    /\ pc = "ready"
    /\ arg.kind = "command"
    /\ Return("translate_command",
              translate_command(arg.input, arg.from_os, arg.to_os))

TranslateCompoundCommand ==
    /\ pc = "ready"
    /\ arg.kind = "command"
    /\ Return("translate_compound_command",
              translate_compound_command(arg.input, arg.from_os, arg.to_os))

\* the tail of translate_command, entered with the mapping the lookup found
TranslateWithMapping ==
    /\ pc = "ready"
    /\ arg.kind = "mapping"
    /\ Return("translate_with_mapping",
              translate_with_mapping(trim(arg.input), parse_command(arg.input)[2],
                                     arg.mapping, arg.from_os, arg.to_os))

\* the splitter as translate_compound_command calls it: on the trimmed line, once
\* the blank test and the same-system test have been passed
SplitCompoundCommand ==
    /\ pc = "ready"
    /\ arg.kind = "command"
    /\ trim(arg.input) # ""
    /\ arg.from_os # arg.to_os
    /\ Return("split_compound_command", split_compound_command(trim(arg.input)))

TranslateFlags ==
    /\ pc = "ready"
    /\ arg.kind = "flags"
    /\ Return("translate_flags",
              translate_flags(arg.args, arg.mapping,
                              TranslationResultNew("", "", "Windows", "Linux")))

Init == \E call \in CommandCalls \cup MappingCalls : Ready(call)

Next ==
    \/ TranslateCommand
    \/ TranslateCompoundCommand
    \/ TranslateWithMapping
    \/ SplitCompoundCommand

Spec == Init /\ [][Next]_vars

InitFlags == \E call \in FlagCalls : Ready(call)

NextFlags == TranslateFlags

SpecFlags == InitFlags /\ [][NextFlags]_vars

-----------------------------------------------------------------------------
(* The paths the model translates *)

\* how a generated path begins
PathPrefixes ==
    {"", " ", "C:", "d:", "1:", "~", ".", "..", "\\", "/",
     "/mnt/c", "/mnt/D", "/mnt/data", "/mnt", "/home", "/etc",
     e_acute, e_acute \o ":", "C" \o euro_sign, "/mnt/" \o e_acute}

PathSeparators == {"\\", "/"}

PathSegments == {"Users", "john", "x ", ""}

\* a separator and the segment after it; an empty segment makes a doubled or
\* a trailing separator
PathComponents == {sep \o seg : sep \in PathSeparators, seg \in PathSegments}

PathOs == {"Windows", "Linux", "MacOS", "Ios", "Unknown"}

GeneratedPaths ==
    {prefix \o Concat(components) :
        prefix \in PathPrefixes, components \in Seqs(PathComponents, MaxComponents)}

PathCalls ==
    {[kind |-> "path", path |-> path, from_os |-> f, to_os |-> t] :
        path \in GeneratedPaths, f \in PathOs, t \in PathOs}

\* the paths is_windows_path is asked about
ShapeCalls == {[kind |-> "shape", path |-> path] : path \in GeneratedPaths}

\* is_windows_path returns a boolean, unless its drive letter test panics
IsWindowsPath ==
    /\ pc = "ready"
    /\ arg.kind = "shape"
    /\ Return("is_windows_path",
              IF drive_test_out_of_bounds(arg.path) THEN Panic
              ELSE Returned(is_windows_path(arg.path)))

TranslatePath ==
    /\ pc = "ready"
    /\ arg.kind = "path"
    /\ Return("translate_path", translate_path(arg.path, arg.from_os, arg.to_os))

\* the path a call returned is translated back to the system it came from
TranslatePathBack ==
    /\ pc = "done"
    /\ op = "translate_path"
    /\ IsOk(ret)
    /\ arg.from_os # arg.to_os
    /\ pc' = "back"
    /\ op' = "translate_path_back"
    /\ ret' = [there |-> ret,
               back |-> translate_path(ret[2].path, arg.to_os, arg.from_os)]
    /\ UNCHANGED arg

InitPath == \E call \in PathCalls \cup ShapeCalls : Ready(call)

NextPath == TranslatePath \/ TranslatePathBack \/ IsWindowsPath

SpecPath == InitPath /\ [][NextPath]_vars

-----------------------------------------------------------------------------
(* The strings whose references the model translates *)

EnvPieces ==
    {"%", "TEMP", "x", " ", "%temp%", "%Path%", "%USERPROFILE%",
     "$HOME", "${user}", "$"}

EnvOs == {"Windows", "Linux", "MacOS", "Unknown"}

\* what stands before the reference in a text with one reference
EnvPrefixes == {"", "echo ", "cd x "}

\* a prefix and one reference to a Windows variable of the dictionary
EnvReferenceTexts ==
    {prefix \o "%" \o name \o "%" :
        prefix \in EnvPrefixes, name \in DOMAIN ENV_VAR_MAPPINGS}

EnvCalls ==
    {[kind |-> "env", input |-> text, from_os |-> f, to_os |-> t] :
        text \in {Concat(pieces) : pieces \in Seqs(EnvPieces, MaxPieces)}
                     \cup EnvReferenceTexts,
        f \in EnvOs, t \in EnvOs}

TranslateEnvVars ==
    /\ pc = "ready"
    /\ arg.kind = "env"
    /\ Return("translate_env_vars",
              translate_env_vars(arg.input, arg.from_os, arg.to_os))

\* the string a call returned is translated back to the system it came from
TranslateEnvVarsBack ==
    /\ pc = "done"
    /\ op = "translate_env_vars"
    /\ arg.from_os # arg.to_os
    /\ pc' = "back"
    /\ op' = "translate_env_vars_back"
    /\ ret' = [there |-> ret,
               back |-> translate_env_vars(ret, arg.to_os, arg.from_os)]
    /\ UNCHANGED arg

InitEnv == \E call \in EnvCalls : Ready(call)

NextEnv == TranslateEnvVars \/ TranslateEnvVarsBack

SpecEnv == InitEnv /\ [][NextEnv]_vars

-----------------------------------------------------------------------------
(* The package manager commands the model translates *)

\* ways a line starts: nothing, sudo and a space, and sudo after a blank and
\* before a tab
SudoPrefixes == {"", "sudo ", " sudo\t"}

\* the executable and the operation token: every alias family, a word that is
\* no executable, an operation that is none, and lines that stop early
PackageHeads ==
    {"apt install", "apt-get remove", "APT Search", "apt autoremove",
     "pacman -S", "emerge --unmerge", "xbps-remove", "foo install",
     "apt frobnicate", "apt", ""}

\* arguments: flags with a rule, with an empty value, whose rule has an empty
\* target, with no rule, with a leading slash, and two package names
PackageArgs == {"-y", "-y=", "--purge", "-x", "/opt", "vim", "nginx"}

\* the arguments, each after one space
RECURSIVE spaced(_)
spaced(args) == IF args = <<>> THEN "" ELSE " " \o Head(args) \o spaced(Tail(args))

PackageLines ==
    {prefix \o head \o spaced(args) :
        prefix \in SudoPrefixes, head \in PackageHeads,
        args \in Seqs(PackageArgs, MaxPackageArgs)}

PackageSources == {"Apt", "Pacman"}

PackageTargets == {"Apt", "Dnf", "Pacman", "Generic"}

PackageCalls ==
    {[kind |-> "package", input |-> line, from_pm |-> f, to_pm |-> t] :
        line \in PackageLines, f \in PackageSources, t \in PackageTargets}

\* the patterns of the arms of detect_operation, for every manager
ListedTokens ==
    UNION {{OperationArms[pm][i][1] : i \in 1..Len(OperationArms[pm])} :
              pm \in PackageManager}

\* the listed tokens as written, in lower case and in upper case, and a bare
\* package name
OperationTokens ==
    (ListedTokens \ {""})
    \cup {to_lowercase(t) : t \in ListedTokens \ {""}}
    \cup {to_uppercase(t) : t \in ListedTokens \ {""}}
    \cup {"vim"}

OperationCalls ==
    {[kind |-> "operation", pm |-> pm, token |-> token, rest |-> rest] :
        pm \in PackageManager, token \in OperationTokens, rest \in {<<>>, <<"vim">>}}

TranslatePackageCommand ==
    /\ pc = "ready"
    /\ arg.kind = "package"
    /\ Return("translate_package_command",
              translate_package_command(arg.input, arg.from_pm, arg.to_pm))

DetectOperation ==
    /\ pc = "ready"
    /\ arg.kind = "operation"
    /\ Return("detect_operation", detect_operation(arg.pm, <<arg.token>> \o arg.rest))

InitPackage == \E call \in PackageCalls \cup OperationCalls : Ready(call)

NextPackage == TranslatePackageCommand \/ DetectOperation

SpecPackage == InitPackage /\ [][NextPackage]_vars

-----------------------------------------------------------------------------
(* Definitions shared by the properties *)

\* the words of a line and its lowercased verb
WordsOf(line) == split_whitespace(line)
VerbOf(line) == to_lowercase(WordsOf(line)[1])
ArgsOf(line) == Tail(WordsOf(line))

\* rule fm applies to token a: its source equals a ignoring case, or is a prefix of a
RuleMatches(a, fm) ==
    to_lowercase(a) = to_lowercase(fm.source) \/ starts_with(a, fm.source)

\* the index of the first rule in declared order that applies to a, 0 when none
FirstMatch(a, fms) ==
    IF \E i \in 1..Len(fms) : RuleMatches(a, fms[i])
    THEN CHOOSE i \in 1..Len(fms) :
             RuleMatches(a, fms[i]) /\ \A j \in 1..(i - 1) : ~RuleMatches(a, fms[j])
    ELSE 0

\* what rule fm makes of token a
RuleOutput(a, fm) ==
    IF to_lowercase(a) = to_lowercase(fm.source)
    THEN exact_match_output(fm)
    ELSE prefix_match_output(a, fm)

\* the translated arguments when every token is rewritten by its first matching
\* rule alone, and a token without one is kept or dropped as the mapping says
RECURSIVE ByFirstMatch(_, _)
ByFirstMatch(args, mapping) ==
    IF args = <<>> THEN <<>>
    ELSE LET a == Head(args)
             i == FirstMatch(a, mapping.flag_mappings)
         IN  (IF i # 0 THEN RuleOutput(a, mapping.flag_mappings[i])
              ELSE IF mapping.preserve_unmapped_flags THEN <<a>> ELSE <<>>)
             \o ByFirstMatch(Tail(args), mapping)

FreshResult == TranslationResultNew("", "", "Windows", "Linux")

-----------------------------------------------------------------------------
(* C1: first matching rule wins *)

StrictPrefix(p, s) == Len(p) < Len(s) /\ starts_with(s, p)

\* the call has exactly two rules, the source of one a strict prefix of the
\* source of the other, and the single token is the longer source
AmbiguousPair ==
    /\ op = "translate_flags"
    /\ Len(arg.mapping.flag_mappings) = 2
    /\ \E i \in 1..2 :
          /\ StrictPrefix(arg.mapping.flag_mappings[3 - i].source,
                          arg.mapping.flag_mappings[i].source)
          /\ arg.args = <<arg.mapping.flag_mappings[i].source>>

ShorterRule ==
    LET fms == arg.mapping.flag_mappings
    IN  IF Len(fms[1].source) < Len(fms[2].source) THEN fms[1] ELSE fms[2]

LongerRule ==
    LET fms == arg.mapping.flag_mappings
    IN  IF Len(fms[1].source) < Len(fms[2].source) THEN fms[2] ELSE fms[1]

\* the same call with the two rules declared in the other order
SwappedOutput ==
    translate_flags(arg.args,
                    [arg.mapping EXCEPT !.flag_mappings = <<@[2], @[1]>>],
                    FreshResult).translated_args

C1_FirstMatchOnly ==
    op = "translate_flags" =>
        ret.translated_args = ByFirstMatch(arg.args, arg.mapping)

\* C1 as stated: every token is rewritten by the first rule in declared order whose
\* source equals it ignoring case or is a prefix of it, and for two rules of which
\* one source is a strict prefix of the other, declaring them in the other order
\* changes the output for the token equal to the longer source.
C1_SwapAlwaysChangesOutput ==
    /\ C1_FirstMatchOnly
    /\ AmbiguousPair => SwappedOutput # ret.translated_args

\* C1, amended: every token is rewritten by the first rule in declared order whose
\* source equals it ignoring case or is a prefix of it (an earlier prefix rule wins
\* over a later equal rule), and for two rules of which one source is a strict
\* prefix of the other, declaring them in the other order changes the translated
\* arguments for the token equal to the longer source unless the shorter rule's
\* target is empty and the longer rule's target is empty or blank: the token is
\* then dropped under both orders.
C1_FirstMatchingRuleWins ==
    /\ C1_FirstMatchOnly
    /\ AmbiguousPair =>
          ((SwappedOutput = ret.translated_args)
              <=> (ShorterRule.target = "" /\ split_whitespace(LongerRule.target) = <<>>))

\* an earlier rule "/o" takes the token "/o:n" from the later rule "/o:n"
C1_Witness ==
    /\ AmbiguousPair
    /\ arg.mapping.flag_mappings =
           <<FlagMappingNew("/o", "-x"), FlagMappingNew("/o:n", "-s -r")>>
    /\ ret.translated_args = <<"-x n">>
    /\ SwappedOutput = <<"-s", "-r">>

-----------------------------------------------------------------------------
(* Cases of translate_command, stated on the inputs of the call *)

\* the input is not blank and the systems differ
Across == trim(arg.input) # "" /\ arg.from_os # arg.to_os

EntryKey == <<VerbOf(arg.input), arg.from_os, arg.to_os>>
HasEntry == EntryKey \in DOMAIN COMMAND_MAPPINGS
Entry == COMMAND_MAPPINGS[EntryKey]

NativeTo(os) == is_native_command(VerbOf(arg.input), os)

UnixLikeOs == Os \ {"Windows", "Ios", "Unknown"}

\* the result that hands the trimmed input back with the given warnings
Unchanged(warnings) ==
    Ok([command |-> trim(arg.input),
        original |-> trim(arg.input),
        from_os |-> arg.from_os,
        to_os |-> arg.to_os,
        warnings |-> warnings,
        had_unmapped_flags |-> FALSE])

-----------------------------------------------------------------------------
(* C2: a verb of the target system only is passed through *)

C2_Case ==
    /\ op = "translate_command"
    /\ arg.kind = "command"
    /\ Across
    /\ NativeTo(arg.to_os)
    /\ ~NativeTo(arg.from_os)

\* C2: for different systems, when the lowercased verb is native to the target
\* system and not to the source system, translate_command returns the trimmed
\* input unchanged with exactly one warning, that the command is already in the
\* target format, and had_unmapped_flags false.
C2_NativeToTargetPassthrough ==
    C2_Case =>
        ret = Unchanged(<<"Command '" \o VerbOf(arg.input) \o "' is already in "
                            \o OsDisplay(arg.to_os)
                            \o " format, passed through unchanged">>)

C2_Witness ==
    /\ C2_Case
    /\ arg.input = "dir /w"
    /\ arg.from_os = "Linux"
    /\ arg.to_os = "Windows"
    /\ ret[2].command = "dir /w"
    /\ Len(ret[2].warnings) = 1

-----------------------------------------------------------------------------
(* C3: a verb of both systems *)

C3_Case ==
    /\ op = "translate_command"
    /\ arg.kind = "command"
    /\ Across
    /\ NativeTo(arg.to_os)
    /\ NativeTo(arg.from_os)

\* C3: for different systems, when the verb is native to both: with a table entry
\* for (verb, source, target) the command is the entry's target verb followed by
\* the flag-translated arguments; without one the trimmed input is returned
\* unchanged with no warnings. The call never fails.
C3_NativeToBoth ==
    C3_Case =>
        /\ IsOk(ret)
        /\ IF HasEntry
           THEN ret[2].command =
                    join(<<Entry.target_cmd>> \o ByFirstMatch(ArgsOf(arg.input), Entry),
                         " ")
           ELSE ret = Unchanged(<<>>)

C3_Witness ==
    /\ C3_Case
    /\ HasEntry
    /\ arg.input = "ping -n 5"
    /\ arg.from_os = "Windows"
    /\ arg.to_os = "Linux"
    /\ ret[2].command = "ping -c 5"

-----------------------------------------------------------------------------
(* C5 and C6: no table entry *)

NoEntryCase ==
    /\ op = "translate_command"
    /\ arg.kind = "command"
    /\ Across
    /\ ~HasEntry
    /\ ~NativeTo(arg.to_os)

BothUnixLike == arg.from_os \in UnixLikeOs /\ arg.to_os \in UnixLikeOs

\* C5: with no table entry, a verb the native-command rules do not handle, and two
\* Unix-like systems, translate_command returns the trimmed input unchanged with
\* the single warning that Unix compatibility is assumed.
C5_UnixPassthrough ==
    (NoEntryCase /\ BothUnixLike) =>
        ret = Unchanged(<<"Command '" \o VerbOf(arg.input)
                            \o "' passed through (Unix-like OS compatibility assumed)">>)

C5_Witness ==
    /\ NoEntryCase
    /\ BothUnixLike
    /\ arg.input = "foo /w"
    /\ arg.from_os = "Linux"
    /\ arg.to_os = "MacOS"
    /\ ret[2].command = "foo /w"

\* v is the first word of the target verb of an entry whose target system is os
KnownTargetVerb(v, os) ==
    \E key \in DOMAIN COMMAND_MAPPINGS :
        /\ key[3] = os
        /\ to_lowercase(WordsOf(COMMAND_MAPPINGS[key].target_cmd)[1]) = v

\* C6: with no table entry, a verb the native-command rules do not handle, and
\* systems that are not both Unix-like, translate_command returns the trimmed
\* input unchanged with an "already a target command" warning exactly when the
\* verb is the first word of the target verb of some entry for the target system;
\* otherwise it returns CommandNotFound with the lowercased verb.
C6_TargetVerbOrNotFound ==
    (NoEntryCase /\ ~BothUnixLike) =>
        IF KnownTargetVerb(VerbOf(arg.input), arg.to_os)
        THEN ret = Unchanged(<<"Command '" \o VerbOf(arg.input)
                                 \o "' appears to already be a " \o OsDisplay(arg.to_os)
                                 \o " command, passed through unchanged">>)
        ELSE ret = Err(CommandNotFound(VerbOf(arg.input)))

C6_Witness ==
    /\ NoEntryCase
    /\ ~BothUnixLike
    /\ arg.input = "help"
    /\ arg.from_os = "Linux"
    /\ arg.to_os = "Windows"
    /\ IsOk(ret)
    /\ ret[2].command = "help"

-----------------------------------------------------------------------------
(* C4: the command and the warnings when the lookup finds an entry *)

\* the token starts with "-" or "/"
FlagLike(a) == a # "" /\ Head(a) \in {"-", "/"}

\* no rule of the mapping applies to the token
Unmatched(a, mapping) == FirstMatch(a, mapping.flag_mappings) = 0

\* the warnings translate_flags gives for the tokens no rule applies to, in order
RECURSIVE UnmappedWarnings(_, _)
UnmappedWarnings(args, mapping) ==
    IF args = <<>> THEN <<>>
    ELSE LET a == Head(args)
         IN  (IF ~Unmatched(a, mapping) THEN <<>>
              ELSE IF ~mapping.preserve_unmapped_flags
              THEN <<"Flag '" \o a \o "' was dropped">>
              ELSE IF FlagLike(a) THEN <<"Flag '" \o a \o "' was not translated">>
              ELSE <<>>)
             \o UnmappedWarnings(Tail(args), mapping)

\* translate_command reaches the translation by a table entry
EntryUsed ==
    /\ op = "translate_command"
    /\ arg.kind = "command"
    /\ Across
    /\ ~(NativeTo(arg.to_os) /\ ~NativeTo(arg.from_os))
    /\ HasEntry

\* the call translates by a mapping: the entry translate_command found, or the
\* mapping its tail was entered with
MappingApplied == EntryUsed \/ op = "translate_with_mapping"

AppliedMapping == IF op = "translate_with_mapping" THEN arg.mapping ELSE Entry

\* C4: when the lookup finds an entry the call succeeds, the command is the
\* entry's target verb, followed only when translated arguments exist by one space
\* and the translated arguments joined by single spaces (no trailing space when
\* every argument is dropped), and the entry's notes, when present, come after all
\* warnings of the flag translation.
C4_CommandAndNotes ==
    MappingApplied =>
        LET m == AppliedMapping
            translated == ByFirstMatch(ArgsOf(arg.input), m)
        IN  /\ IsOk(ret)
            /\ ret[2].command =
                   IF translated = <<>> THEN m.target_cmd
                   ELSE m.target_cmd \o " " \o join(translated, " ")
            /\ ret[2].warnings =
                   UnmappedWarnings(ArgsOf(arg.input), m)
                       \o (IF m.notes = None THEN <<>> ELSE <<m.notes[1]>>)

C4_Witness ==
    /\ op = "translate_with_mapping"
    /\ arg.input = "dir /zzz /p"
    /\ arg.mapping.source_cmd = "dir"
    /\ arg.mapping.preserve_unmapped_flags
    /\ arg.mapping.notes # None
    /\ ret[2].command = "ls /zzz"
    /\ ret[2].warnings = <<"Flag '/zzz' was not translated", "GNU ls assumed">>

-----------------------------------------------------------------------------
(* C7 and C8: the same system, and blank input *)

EntryPoint ==
    /\ op \in {"translate_command", "translate_compound_command"}
    /\ arg.kind = "command"

IsBlank(s) == \A i \in 1..Len(s) : CharAt(s, i) \in {" ", "\t"}

SameOsCase == EntryPoint /\ ~IsBlank(arg.input) /\ arg.from_os = arg.to_os

\* C7 as stated: for every non-blank input x and every system o, both entry points
\* succeed for (x, o, o) with command equal to x, no warnings and
\* had_unmapped_flags false.
C7_SameOsReturnsInput ==
    SameOsCase =>
        /\ IsOk(ret)
        /\ ret[2].command = arg.input
        /\ ret[2].warnings = <<>>
        /\ ~ret[2].had_unmapped_flags

\* C7, amended: for every non-blank input x and every system o, both entry points
\* succeed for (x, o, o) with command equal to x without its leading and trailing
\* whitespace, no warnings and had_unmapped_flags false; the input is not
\* tokenized, split on operators or looked up.
C7_SameOsReturnsTrimmedInput ==
    SameOsCase =>
        /\ IsOk(ret)
        /\ ret[2].command = trim(arg.input)
        /\ ret[2].warnings = <<>>
        /\ ~ret[2].had_unmapped_flags

C7_Witness ==
    /\ SameOsCase
    /\ op = "translate_compound_command"
    /\ arg.input = " dir /zzz  ||  foo "
    /\ arg.from_os = "Unknown"
    /\ ret[2].command = "dir /zzz  ||  foo"

\* C8: for every empty or whitespace-only input and every pair of systems, equal
\* ones included, both entry points return EmptyCommand.
C8_BlankIsEmptyCommand ==
    (EntryPoint /\ IsBlank(arg.input)) => ret = Err(EmptyCommand)

C8_Witness ==
    /\ EntryPoint
    /\ op = "translate_command"
    /\ arg.input = " \t "
    /\ arg.from_os = "Linux"
    /\ arg.to_os = "Linux"
    /\ ret = Err(EmptyCommand)

-----------------------------------------------------------------------------
(* C9: tokens no rule applies to, with preserve_unmapped_flags set *)

\* the number of words of the command before the translation of token k
WordsBefore(m, args, k) ==
    Len(WordsOf(join(<<m.target_cmd>> \o ByFirstMatch(SubSeq(args, 1, k - 1), m), " ")))

\* C9: with preserve_unmapped_flags true, a token no rule applies to is kept
\* unchanged at its position in the command; the "not translated" warning for it
\* is present, and had_unmapped_flags is set, exactly when such a token starts
\* with "-" or "/"; the call does not fail.
C9_UnmappedTokenKept ==
    (MappingApplied /\ AppliedMapping.preserve_unmapped_flags) =>
        LET m == AppliedMapping
            args == ArgsOf(arg.input)
            lost == {k \in 1..Len(args) : Unmatched(args[k], m)}
        IN  /\ IsOk(ret)
            /\ \A k \in lost :
                  /\ WordsOf(ret[2].command)[WordsBefore(m, args, k) + 1] = args[k]
                  /\ (\E w \in 1..Len(ret[2].warnings) :
                         ret[2].warnings[w] = "Flag '" \o args[k] \o "' was not translated")
                     <=> FlagLike(args[k])
            /\ ret[2].had_unmapped_flags <=> (\E k \in lost : FlagLike(args[k]))

C9_Witness ==
    /\ EntryUsed
    /\ arg.input = "dir /w /zzz"
    /\ arg.from_os = "Windows"
    /\ arg.to_os = "Linux"
    /\ ret[2].command = "ls -C /zzz"
    /\ ret[2].had_unmapped_flags
    /\ ret[2].warnings = <<"Flag '/zzz' was not translated">>

-----------------------------------------------------------------------------
(* C10: the order of the rules of a built-in mapping *)

\* no earlier rule has a source that is a prefix of, or equals ignoring case, the
\* source of rule j
NoEarlierRuleCovers(fms, j) ==
    \A i \in 1..(j - 1) :
        /\ ~starts_with(fms[j].source, fms[i].source)
        /\ to_lowercase(fms[j].source) # to_lowercase(fms[i].source)

\* C10: in every built-in mapping a more specific rule precedes a broader one: no
\* rule's source has as a prefix, or equals ignoring case, the source of an
\* earlier rule. Stated on the calls: in the entry a call uses, every rule whose
\* source is one of the call's tokens is preceded by no rule that covers it.
C10_SpecificRuleFirst ==
    EntryUsed =>
        \A k \in 1..Len(ArgsOf(arg.input)) :
            \A j \in 1..Len(Entry.flag_mappings) :
                ArgsOf(arg.input)[k] = Entry.flag_mappings[j].source
                    => NoEarlierRuleCovers(Entry.flag_mappings, j)

-----------------------------------------------------------------------------
(* C11, C12, C13: translate_compound_command *)

\* the parts of the line of the call, as the splitter returns them
PartsOf == split_compound_command(trim(arg.input))

IsOperator(p) == p \in {"&&", "||", ";", "|"}

\* the parts the loop acts on: operators and segments that are not blank
KeptParts == SelectSeq(PartsOf, LAMBDA p : ~IsBlank(p))

SegmentsOf(parts) == SelectSeq(parts, LAMBDA p : ~IsOperator(p))

OperatorsOf(parts) == SelectSeq(parts, IsOperator)

\* what translate_command returns for a segment
SegmentResult(p) == translate_command(trim(p), arg.from_os, arg.to_os)

SegmentNotFound(p) ==
    IsErr(SegmentResult(p)) /\ SegmentResult(p)[2][1] = "CommandNotFound"

NotTranslated(p) == "Command '" \o WordsOf(p)[1] \o "' was not translated"

\* a call of translate_compound_command that reached the loop over the parts
CompoundCase ==
    /\ op = "translate_compound_command"
    /\ Across
    /\ Len(PartsOf) >= 2

EndsWith(s, suffix) ==
    Len(suffix) <= Len(s) /\ SubSeq(s, Len(s) - Len(suffix) + 1, Len(s)) = suffix

\* the warnings of the result that report a segment left as it was
CommandWarnings ==
    SelectSeq(ret[2].warnings,
              LAMBDA w : starts_with(w, "Command '") /\ EndsWith(w, "' was not translated"))

Piece(p) ==
    IF IsOperator(p) THEN p
    ELSE IF IsOk(SegmentResult(p)) THEN SegmentResult(p)[2].command
    ELSE trim(p)

WarningsOfPart(p) ==
    IF IsOperator(p) THEN <<>>
    ELSE IF IsOk(SegmentResult(p)) THEN SegmentResult(p)[2].warnings
    ELSE <<NotTranslated(p)>>

RECURSIVE Flatten(_)
Flatten(seqs) == IF seqs = <<>> THEN <<>> ELSE Head(seqs) \o Flatten(Tail(seqs))

\* the output is the pieces of the kept parts in order, one space between two
\* pieces, and the warnings are those of the parts in order
LayoutKept ==
    /\ IsOk(ret)
    /\ ret[2].command = join([k \in 1..Len(KeptParts) |-> Piece(KeptParts[k])], " ")
    /\ ret[2].warnings =
           Flatten([k \in 1..Len(KeptParts) |-> WarningsOfPart(KeptParts[k])])

\* the operators a reader of the output finds in it
OutputOperators == OperatorsOf(split_compound_command(ret[2].command))

\* no translation of a segment brings an operator of its own
PlainTranslations ==
    \A k \in 1..Len(KeptParts) :
        OperatorsOf(split_compound_command(Piece(KeptParts[k])))
            = OperatorsOf(<<KeptParts[k]>>)

\* C12 as stated: the output contains exactly the operators of the line, in the
\* same order and number, each between the translations of the segments it
\* separated, the parts joined by single spaces and the warnings in segment order.
C12_ExactlyTheOperatorsOfTheInput ==
    CompoundCase => LayoutKept /\ OutputOperators = OperatorsOf(PartsOf)

\* C12: the operators of the line are put back unchanged, in order, each between
\* the translations of the segments it separated, the parts joined by single
\* spaces and the warnings concatenated in segment order; the output has no
\* other operator unless the translation of a segment contains one.
C12_OperatorsReinserted ==
    CompoundCase =>
        /\ LayoutKept
        /\ PlainTranslations => OutputOperators = OperatorsOf(PartsOf)

C12_Witness ==
    /\ CompoundCase
    /\ arg.input = "dir /zzz; foo -x | cls /q"
    /\ arg.from_os = "Windows"
    /\ arg.to_os = "Linux"
    /\ PlainTranslations
    /\ OutputOperators = <<";", "|">>
    /\ ret[2].command = "ls /zzz ; foo -x | clear /q"
    /\ ret[2].warnings = <<"Flag '/zzz' was not translated",
                           "Command 'foo' was not translated",
                           "Flag '/q' was not translated">>

\* C13: for different systems and a line that is not blank and has a single
\* part, translate_compound_command returns what translate_command returns for
\* the same line and systems, result or error.
C13_SinglePartDelegates ==
    (op = "translate_compound_command" /\ Across /\ Len(PartsOf) = 1) =>
        ret = translate_command(arg.input, arg.from_os, arg.to_os)

C13_Witness ==
    /\ op = "translate_compound_command"
    /\ arg.input = " foo "
    /\ arg.from_os = "Windows"
    /\ arg.to_os = "Linux"
    /\ Len(PartsOf) = 1
    /\ ret = Err(CommandNotFound("foo"))

-----------------------------------------------------------------------------
(* C14: split_compound_command *)

\* a string with its whitespace removed
RECURSIVE Squeeze(_)
Squeeze(s) ==
    IF s = "" THEN ""
    ELSE IF is_whitespace(Head(s)) THEN Squeeze(Tail(s))
    ELSE CharAt(s, 1) \o Squeeze(Tail(s))

\* the line the splitter was given
SplitInput == trim(arg.input)

\* operators and segments in the order they are met: the entries are the line
\* cut in pieces, every operator sequence is cut out of the segments, two
\* segments are never neighbours, and `||` is taken before `|`
EncounterOrder ==
    /\ \A k \in 1..Len(ret) :
           ~IsOperator(ret[k]) =>
               /\ ~contains(ret[k], "&&")
               /\ ~contains(ret[k], "|")
               /\ ~contains(ret[k], ";")
    /\ \A k \in 1..(Len(ret) - 1) :
           /\ IsOperator(ret[k]) \/ IsOperator(ret[k + 1])
           /\ ~(ret[k] = "|" /\ ret[k + 1] \in {"|", "||"})

\* C14 as stated: operators and segments come in encounter order, `&&` and `||`
\* before `;` and `|`, a bare `&` stays in its segment, segments are trimmed and
\* empty segments dropped, `a && b || c` gives ["a", "&&", "b", "||", "c"], and the
\* entries concatenated are the line up to whitespace.
C14_SegmentsTrimmed ==
    op = "split_compound_command" =>
        /\ EncounterOrder
        /\ \A k \in 1..Len(ret) : ret[k] = trim(ret[k]) /\ ret[k] # ""
        /\ SplitInput = "a && b || c" => ret = <<"a", "&&", "b", "||", "c">>
        /\ SplitInput = "dir & cls" => ret = <<"dir & cls">>
        /\ Squeeze(Concat(ret)) = Squeeze(SplitInput)

\* C14: operators and segments come in encounter order, `&&` and `||` before `;`
\* and `|`, a bare `&` stays in its segment; a segment is returned with the
\* whitespace it has in the line and is dropped only when it has no character,
\* so that `a && b || c` gives ["a ", "&&", " b ", "||", " c"] and the entries
\* concatenated are the line itself.
C14_SegmentsAsWritten ==
    op = "split_compound_command" =>
        /\ EncounterOrder
        /\ \A k \in 1..Len(ret) : ret[k] # ""
        /\ SplitInput = "a && b || c" => ret = <<"a ", "&&", " b ", "||", " c">>
        /\ SplitInput = "dir & cls" => ret = <<"dir & cls">>
        /\ Concat(ret) = SplitInput

C14_Witness ==
    /\ op = "split_compound_command"
    /\ arg.input = "a && b || c"
    /\ ret = <<"a ", "&&", " b ", "||", " c">>
    /\ [k \in 1..Len(ret) |-> trim(ret[k])] = <<"a", "&&", "b", "||", "c">>

-----------------------------------------------------------------------------
(* C15 .. C19: translate_path *)

\* the path translate_path works on
PathGiven == trim(arg.path)

DriveLetters == Chars(AsciiUpper) \cup Chars(AsciiLower)

DrivePrefixed(p) == Len(p) >= 2 /\ CharAt(p, 1) \in DriveLetters /\ CharAt(p, 2) = ":"

\* every backslash of s replaced by a slash, and the reverse
Slashed(s) == [i \in 1..Len(s) |-> IF CharAt(s, i) = "\\" THEN "/" ELSE CharAt(s, i)]

Backslashed(s) == [i \in 1..Len(s) |-> IF CharAt(s, i) = "/" THEN "\\" ELSE CharAt(s, i)]

\* s without its empty components: doubled and trailing separators removed
Collapsed(s, sep) == join(split_non_empty(s, sep), sep)

WindowsToUnixCase ==
    /\ op = "translate_path"
    /\ arg.from_os = "Windows"
    /\ arg.to_os \in UnixLikeOs
    /\ PathGiven # ""

\* C15 as stated: a path that starts with a letter and `:` becomes `/mnt/`, the
\* lowercased letter and the remainder with every backslash replaced by `/`; the
\* result starts with a single `/` and drive_translated is true; without a drive
\* prefix drive_translated stays false.
C15_DriveToMountVerbatim ==
    WindowsToUnixCase =>
        IF DrivePrefixed(arg.path)
        THEN /\ ret[2].path = "/mnt/" \o to_lowercase(CharAt(arg.path, 1))
                                  \o Concat(Slashed(SubSeq(arg.path, 3, Len(arg.path))))
             /\ starts_with(ret[2].path, "/") /\ ~starts_with(ret[2].path, "//")
             /\ ret[2].drive_translated
        ELSE ~ret[2].drive_translated

\* C15: the path is trimmed first; a path that then starts with a letter and `:`
\* becomes `/mnt/`, the lowercased letter and the remainder with every backslash
\* replaced by `/`, with doubled and trailing separators removed; the result
\* starts with a single `/` and drive_translated is true; without a drive prefix
\* drive_translated stays false.
C15_DriveToMountCollapsed ==
    WindowsToUnixCase =>
        IF DrivePrefixed(PathGiven)
        THEN /\ ret[2].path =
                    "/" \o Collapsed("/mnt/" \o to_lowercase(CharAt(PathGiven, 1))
                               \o Concat(Slashed(SubSeq(PathGiven, 3, Len(PathGiven)))),
                             "/")
             /\ starts_with(ret[2].path, "/") /\ ~starts_with(ret[2].path, "//")
             /\ ret[2].drive_translated
        ELSE ~ret[2].drive_translated

C15_Witness ==
    /\ WindowsToUnixCase
    /\ arg.path = "C:\\Users\\john"
    /\ arg.to_os = "Linux"
    /\ ret[2].path = "/mnt/c/Users/john"
    /\ ret[2].drive_translated

\* an uppercase drive letter, `:`, and one or more components, each a backslash
\* and a segment that is not empty and has no separator
RoundTripShape(p) ==
    /\ Len(p) >= 4
    /\ CharAt(p, 1) \in Chars(AsciiUpper)
    /\ CharAt(p, 2) = ":"
    /\ CharAt(p, 3) = "\\"
    /\ CharAt(p, Len(p)) # "\\"
    /\ ~contains(p, "/")
    /\ ~contains(p, "\\\\")

RoundTripCase ==
    /\ op = "translate_path_back"
    /\ arg.from_os = "Windows"
    /\ arg.to_os = "Linux"
    /\ RoundTripShape(arg.path)

RoundTrips ==
    /\ IsOk(ret.back)
    /\ ret.back[2].path = arg.path
    /\ ret.there[2].drive_translated
    /\ ret.back[2].drive_translated

\* C16 as stated: a Windows path of that shape translated to Linux and back is
\* the path itself, and both calls report drive_translated.
C16_RoundTripAnySegment == RoundTripCase => RoundTrips

\* C16: a Windows path of that shape that does not end with whitespace,
\* translated to Linux and back, is the path itself, and both calls report
\* drive_translated.
C16_RoundTripTrimmed ==
    (RoundTripCase /\ arg.path = trim(arg.path)) => RoundTrips

C16_Witness ==
    /\ RoundTripCase
    /\ arg.path = "C:\\Users\\john"
    /\ ret.there[2].path = "/mnt/c/Users/john"
    /\ ret.back[2].path = "C:\\Users\\john"
    /\ ret.there[2].drive_translated
    /\ ret.back[2].drive_translated


UnixToWindowsCase ==
    /\ op = "translate_path"
    /\ arg.from_os \in UnixLikeOs
    /\ arg.to_os = "Windows"
    /\ PathGiven # ""

\* `/mnt/`, one letter, and then a slash or the end of the path
MountPath(p) ==
    /\ starts_with(p, "/mnt/")
    /\ Len(p) >= 6
    /\ CharAt(p, 6) \in DriveLetters
    /\ (Len(p) = 6 \/ CharAt(p, 7) = "/")

\* an absolute path that is neither a network path, a mount path nor under /home/
PlainAbsolute(p) ==
    /\ starts_with(p, "/")
    /\ ~starts_with(p, "//")
    /\ ~MountPath(p)
    /\ ~starts_with(p, "/home/")

\* C17: from a unix-like system to Windows, an absolute path that starts with a
\* single `/`, is not a `/mnt/{letter}` mount path and does not start with
\* `/home/` becomes `C:` followed by the path with `/` replaced by backslashes
\* (doubled and trailing separators removed), with drive_translated true and
\* the warning that the root was mapped to C:; paths under `/mnt/` whose first
\* component is not a single letter are among them.
C17_RootToDriveC ==
    (UnixToWindowsCase /\ PlainAbsolute(PathGiven)) =>
        /\ ret[2].path = Collapsed("C:" \o Concat(Backslashed(PathGiven)), "\\")
        /\ ret[2].drive_translated
        /\ ret[2].warnings = <<"Root path mapped to C: drive">>

\* the path was changed by a convention, not only by swapping separators
ConventionApplied ==
    \/ ret[2].drive_translated
    \/ starts_with(PathGiven, "\\\\") /\ starts_with(ret[2].path, "//")
    \/ starts_with(PathGiven, "//") /\ starts_with(ret[2].path, "\\\\")
    \/ starts_with(PathGiven, "~") /\ starts_with(ret[2].path, "%USERPROFILE%")

\* C18: whenever translate_path applies a conventional mapping (drive letter to
\* or from a /mnt/x mount point, UNC prefix to or from a `//` prefix, /home/ to
\* C:\Users, ~ to %USERPROFILE%, Unix root to C:) the warnings it returns are
\* not empty.
C18_ConventionWarns ==
    (op = "translate_path" /\ IsOk(ret) /\ arg.from_os # arg.to_os /\ ConventionApplied)
        => ret[2].warnings # <<>>

\* a pair of different systems that is neither Windows to unix-like, unix-like
\* to Windows nor unix-like to unix-like
FallbackCase ==
    /\ op = "translate_path"
    /\ PathGiven # ""
    /\ arg.from_os # arg.to_os
    /\ ~(arg.from_os = "Windows" /\ arg.to_os \in UnixLikeOs)
    /\ ~(arg.from_os \in UnixLikeOs /\ arg.to_os = "Windows")
    /\ ~(arg.from_os \in UnixLikeOs /\ arg.to_os \in UnixLikeOs)

WindowsShaped(p) == DrivePrefixed(p) \/ contains(p, "\\")

UnixShaped(p) == \E prefix \in {"/", "~/", "./", "../"} : starts_with(p, prefix)

\* the result is the one the rules of the pair (f, t) give for the same path
ConvertedAs(f, t) ==
    LET r == translate_path(PathGiven, f, t)[2]
    IN  /\ IsOk(ret)
        /\ ret[2].path = r.path
        /\ ret[2].drive_translated = r.drive_translated
        /\ ret[2].warnings = r.warnings

\* C19 as stated: for such a pair a Windows-shaped path is converted with the
\* Windows to Unix rules and a Unix-shaped path with the Unix to Windows rules,
\* whatever the target system is.
C19_ShapeDecides ==
    FallbackCase =>
        /\ WindowsShaped(PathGiven) => ConvertedAs("Windows", "Linux")
        /\ UnixShaped(PathGiven) => ConvertedAs("Linux", "Windows")

\* C19: for such a pair a Windows-shaped path, whatever it starts with, is
\* converted with the Windows to Unix rules, and every other path, Unix-shaped
\* or not, with the Unix to Windows rules, whatever the target system is.
C19_WindowsShapeFirst ==
    FallbackCase =>
        IF WindowsShaped(PathGiven) THEN ConvertedAs("Windows", "Linux")
        ELSE ConvertedAs("Linux", "Windows")

C19_Witness ==
    /\ FallbackCase
    /\ arg.path = "./Users\\john"
    /\ arg.from_os = "Linux"
    /\ arg.to_os = "Unknown"
    /\ WindowsShaped(PathGiven) /\ UnixShaped(PathGiven)
    /\ ret[2].path = "./Users/john"

-----------------------------------------------------------------------------
(* C20: translate_env_vars from Windows to a unix-like system *)

\* the place of the first c in s, 0 when s has none
FirstIndex(s, c) ==
    IF \E i \in 1..Len(s) : CharAt(s, i) = c
    THEN CHOOSE i \in 1..Len(s) :
             CharAt(s, i) = c /\ \A j \in 1..(i - 1) : CharAt(s, j) # c
    ELSE 0

\* the Unix name of a Windows variable, whatever the case the name is written in
UnixNameOf(name) ==
    IF \E k \in DOMAIN ENV_VAR_MAPPINGS : to_lowercase(k) = to_lowercase(name)
    THEN ENV_VAR_MAPPINGS[CHOOSE k \in DOMAIN ENV_VAR_MAPPINGS :
                              to_lowercase(k) = to_lowercase(name)]
    ELSE name

\* s read once from the left: the text before the first `%` is kept; if a later
\* `%` closes it, `%NAME%` becomes `$` and the name, and reading goes on after the
\* closing `%`; if none does, the rest is kept
RECURSIVE ReadOnce(_)
ReadOnce(s) ==
    LET open == FirstIndex(s, "%")
        after == SubSeq(s, open + 1, Len(s))
        close == FirstIndex(after, "%")
    IN  IF open = 0 \/ close = 0 THEN s
        ELSE SubSeq(s, 1, open - 1) \o "$" \o UnixNameOf(SubSeq(after, 1, close - 1))
                 \o ReadOnce(SubSeq(after, close + 1, Len(after)))

WindowsToUnixEnvCase ==
    /\ op = "translate_env_vars"
    /\ arg.from_os = "Windows"
    /\ arg.to_os \in UnixLikeOs

\* C20: from Windows to a unix-like system the string is read once from the
\* left: each `%` with a later `%` opens a reference `%NAME%` that becomes `$`
\* and the dictionary's Unix name for NAME (found whatever its case) or NAME
\* itself; a `%` with no later `%` and the characters outside a reference are
\* copied; what a replacement wrote is not read again.
C20_SinglePass == WindowsToUnixEnvCase => ret = ReadOnce(arg.input)

C20_Witness ==
    /\ WindowsToUnixEnvCase
    /\ arg.input = "%temp%x%"
    /\ ret = "$TMPDIRx%"

-----------------------------------------------------------------------------
(* C21: references to variables translated to Linux and back *)

\* the name of the one reference of a text of EnvReferenceTexts
ReferencedName(text) ==
    CHOOSE name \in DOMAIN ENV_VAR_MAPPINGS :
        \E prefix \in EnvPrefixes : text = prefix \o "%" \o name \o "%"

PrefixOf(text) == SubSeq(text, 1, Len(text) - Len(ReferencedName(text)) - 2)

EnvRoundTripCase ==
    /\ op = "translate_env_vars_back"
    /\ arg.from_os = "Windows"
    /\ arg.to_os = "Linux"
    /\ arg.input \in EnvReferenceTexts

\* C21 as stated: for every Windows name of the dictionary and every text made
\* of a prefix and the one reference %N%, translating to Linux and back gives
\* the text again.
C21_EveryNameComesBack == EnvRoundTripCase => ret.back = arg.input

\* C21: for every Windows name of the dictionary but TMP and every text made of
\* a prefix and the one reference %N%, translating to Linux and back gives the
\* text again; %TMP% goes to $TMPDIR as %TEMP% does and comes back as %TEMP%.
C21_EveryNameButTmpComesBack ==
    EnvRoundTripCase =>
        IF ReferencedName(arg.input) = "TMP"
        THEN /\ ret.there = PrefixOf(arg.input) \o "$TMPDIR"
             /\ ret.back = PrefixOf(arg.input) \o "%TEMP%"
        ELSE /\ ret.there = PrefixOf(arg.input) \o "$"
                                \o ENV_VAR_MAPPINGS[ReferencedName(arg.input)]
             /\ ret.back = arg.input

C21_Witness ==
    /\ EnvRoundTripCase
    /\ arg.input = "echo %USERPROFILE%"
    /\ ret.there = "echo $HOME"
    /\ ret.back = "echo %USERPROFILE%"

-----------------------------------------------------------------------------
(* C26: a rule whose source is a proper prefix of the token *)

\* the first rule that matches token a, when its source is a proper prefix of a
PrefixRule(a, mapping) == mapping.flag_mappings[FirstMatch(a, mapping.flag_mappings)]

PrefixCase(a, mapping) ==
    /\ FirstMatch(a, mapping.flag_mappings) # 0
    /\ StrictPrefix(PrefixRule(a, mapping).source, a)
    /\ to_lowercase(a) # to_lowercase(PrefixRule(a, mapping).source)

\* the remainder of the token after the source, without its leading `:` and `=`
ValueOf(a, fm) ==
    trim_start_matches(
        trim_start_matches(SubSeq(a, Len(fm.source) + 1, Len(a)), ":"), "=")

\* what the token gives: `{target} {value}`, the bare target when no value
\* remains, nothing when the target is empty
ValueEntry(a, fm) ==
    IF fm.target = "" THEN <<>>
    ELSE IF ValueOf(a, fm) = "" THEN <<fm.target>>
    ELSE <<fm.target \o " " \o ValueOf(a, fm)>>

\* C26: when the first matching rule's source is a proper prefix of the token,
\* the remainder without its leading `:` / `=` is the value; a non-empty target
\* gives the single entry `{target} {value}`, or the bare target when no value
\* remains; an empty target drops the token, value included, with no warning
\* and without setting had_unmapped_flags.
C26_PrefixMatchWithValue ==
    op = "translate_flags" =>
        /\ ret.translated_args =
               Flatten([k \in 1..Len(arg.args) |->
                           IF PrefixCase(arg.args[k], arg.mapping)
                           THEN ValueEntry(arg.args[k], PrefixRule(arg.args[k], arg.mapping))
                           ELSE ByFirstMatch(<<arg.args[k]>>, arg.mapping)])
        /\ (\A k \in 1..Len(arg.args) : PrefixCase(arg.args[k], arg.mapping))
               => ret.result.warnings = <<>> /\ ~ret.result.had_unmapped_flags

-----------------------------------------------------------------------------
(* C27: the separators of a translated path *)

\* s has the separator sep doubled somewhere after its first character
DoubledInside(s, sep) == contains(SubSeq(s, 2, Len(s)), sep \o sep)

\* C27: for every path that is not blank, the result of a translation from
\* Windows to a unix-like system has no backslash and no two adjacent `/` other
\* than one leading `//`, and the result of a translation from a unix-like
\* system to Windows has no `/` and no two adjacent backslashes other than one
\* leading pair.
C27_SeparatorsNormalised ==
    /\ WindowsToUnixCase =>
           /\ IsOk(ret)
           /\ ~contains(ret[2].path, "\\")
           /\ ~DoubledInside(ret[2].path, "/")
    /\ UnixToWindowsCase =>
           /\ IsOk(ret)
           /\ ~contains(ret[2].path, "/")
           /\ ~DoubledInside(ret[2].path, "\\")

C27_Witness ==
    /\ WindowsToUnixCase
    /\ arg.path = "C:\\\\Users"
    /\ arg.to_os = "Linux"
    /\ ret[2].path = "/mnt/c/Users"

-----------------------------------------------------------------------------
(* C28: a line of two or more parts never fails *)

-----------------------------------------------------------------------------
(* C29: paths with characters of more than one byte *)

\* the path has a character outside ASCII
MultiByte(path) == byte_len(path) > Len(path)

\* C29: is_windows_path and translate_path return a value, a result or an error,
\* for every path, those with characters of more than one byte included: the
\* drive letter test, which compares the length in bytes with 2 and then reads
\* the second character, never reads past the end of the characters.
C29_NoReadPastTheEnd ==
    /\ op = "is_windows_path" =>
           ret # Panic /\ ret \in {Returned(TRUE), Returned(FALSE)}
    /\ op = "translate_path" =>
           ret # Panic /\ (IsOk(ret) \/ ret = Err(EmptyPath))
    /\ op \in {"is_windows_path", "translate_path"} =>
           ~(/\ byte_len(trim(arg.path)) >= 2
             /\ CharAt(trim(arg.path), 1) \in DriveLetters
             /\ Len(trim(arg.path)) < 2)

C29_Witness ==
    /\ op = "translate_path"
    /\ arg.path = e_acute
    /\ byte_len(arg.path) = 2
    /\ Len(arg.path) = 1
    /\ arg.from_os = "Windows"
    /\ arg.to_os = "Linux"
    /\ ret = Ok([PathTranslationNew(e_acute, e_acute, "Windows", "Linux")
                    EXCEPT !.drive_translated = FALSE])

-----------------------------------------------------------------------------
(* Cases of translate_package_command, stated on the inputs of the call *)

PackageCall == op = "translate_package_command"

PackageTokens == split_whitespace(arg.input)

\* the line starts with the token sudo
HadSudo == PackageTokens # <<>> /\ PackageTokens[1] = "sudo"

\* the position of the executable among the tokens
ExecutableIndex == IF HadSudo /\ Len(PackageTokens) > 1 THEN 2 ELSE 1

DifferentManagers == PackageCall /\ arg.from_pm # arg.to_pm

\* the call translated a command between two managers
PackageTranslated == DifferentManagers /\ IsOk(ret)

\* the manager of the executable of the line
DetectedManager == detect_package_manager(PackageTokens[ExecutableIndex])[2][1]

\* the operation the grammar of the detected manager gives the operation token
DetectedOperation ==
    detect_operation(DetectedManager,
                     SubSeq(PackageTokens, ExecutableIndex + 1, Len(PackageTokens)))[2]

\* the entry of the target manager for the detected operation
TargetMapping == OPERATION_MAPPINGS[<<arg.to_pm, DetectedOperation>>]

\* the tokens after the operation token
TokensAfterOperation ==
    SubSeq(PackageTokens, ExecutableIndex + 2, Len(PackageTokens))

-----------------------------------------------------------------------------
(* C22: sudo in the translated package command *)

\* C22 as stated: between different managers the command starts with `sudo `
\* exactly when the input had a leading sudo token and the target operation
\* requires sudo, and requires_sudo of the result is that of the target
\* manager's entry for the detected operation.
C22_SudoKeptWhenTargetNeedsIt ==
    PackageTranslated =>
        /\ starts_with(ret[2].command, "sudo ")
               <=> (HadSudo /\ TargetMapping.requires_sudo)
        /\ ret[2].requires_sudo = TargetMapping.requires_sudo

\* the part of C22 that holds: sudo is never added, it is kept only for a
\* target operation that requires it, and requires_sudo is the target's
C22_SudoNeverAdded ==
    PackageTranslated =>
        /\ starts_with(ret[2].command, "sudo ")
               => (HadSudo /\ TargetMapping.requires_sudo)
        /\ ret[2].requires_sudo = TargetMapping.requires_sudo

-----------------------------------------------------------------------------
(* C23: the layout of the translated package command *)

LeadingDashOrSlash(token) == CharAt(token, 1) \in {"-", "/"}

NoLeadingDashOrSlash(token) == ~LeadingDashOrSlash(token)

\* what the table of the call gives one flag taken alone
FlagAlone(flag) ==
    package_translate_flags(<<flag>>, arg.from_pm, arg.to_pm, DetectedOperation).flags

RECURSIVE FlagsInOrder(_)
FlagsInOrder(flags) ==
    IF flags = <<>> THEN <<>> ELSE FlagAlone(Head(flags)) \o FlagsInOrder(Tail(flags))

\* C23: the command of a translated package command is the base command of the
\* target manager for the operation, then the translation of every token after
\* the operation token that starts with `-` or `/`, in their order, then the
\* other tokens unchanged, in their order, with one space between two entries,
\* and `sudo ` before it or not.
C23_FlagsThenPackages ==
    PackageTranslated =>
        LET flags == SelectSeq(TokensAfterOperation, LeadingDashOrSlash)
            packages == SelectSeq(TokensAfterOperation, NoLeadingDashOrSlash)
            body == join(<<TargetMapping.command>> \o FlagsInOrder(flags) \o packages,
                         " ")
        IN  ret[2].command \in {body, "sudo " \o body}

C23_Witness ==
    /\ PackageTranslated
    /\ arg.input = "sudo apt install vim -y"
    /\ arg.from_pm = "Apt"
    /\ arg.to_pm = "Pacman"
    /\ TokensAfterOperation = <<"vim", "-y">>
    /\ ret[2].command = "sudo pacman -S --noconfirm vim"

-----------------------------------------------------------------------------
(* C24: the operation token *)

\* the token is the pattern of the arm in some letter case; the empty pattern
\* is listed for a bare package name
WrittenAs(token, pattern) ==
    IF pattern = "" THEN token = "vim"
    ELSE to_lowercase(token) = to_lowercase(pattern)

\* C24 as stated: for every manager and every token listed for it in
\* detect_operation, the token in any letter case gives the listed operation,
\* a bare package name for emerge and xbps included.
C24_ListedTokensAnyCase ==
    op = "detect_operation" =>
        \A i \in 1..Len(OperationArms[arg.pm]) :
            WrittenAs(arg.token, OperationArms[arg.pm][i][1])
                => ret = Ok(OperationArms[arg.pm][i][2])

\* the part of C24 that holds: a token listed in lower case gives the listed
\* operation in any letter case
C24_LowerCaseTokensAnyCase ==
    op = "detect_operation" =>
        \A i \in 1..Len(OperationArms[arg.pm]) :
            LET pattern == OperationArms[arg.pm][i][1]
            IN  /\ pattern # ""
                /\ pattern = to_lowercase(pattern)
                /\ WrittenAs(arg.token, pattern)
                => ret = Ok(OperationArms[arg.pm][i][2])

\* the arms that no token reaches: the token is compared in lower case with a
\* pattern that has an upper case letter, or is never empty
C24_DeadArms ==
    op = "detect_operation" =>
        \A i \in 1..Len(OperationArms[arg.pm]) :
            LET pattern == OperationArms[arg.pm][i][1]
            IN  /\ pattern = "" \/ pattern # to_lowercase(pattern)
                /\ WrittenAs(arg.token, pattern)
                => ret = Err(UnsupportedOperation(to_lowercase(arg.token)))

-----------------------------------------------------------------------------
(* C25: the errors of translate_package_command, and equal managers *)

\* the names detect_package_manager knows
ExecutableAliases ==
    {"apt", "apt-get", "aptitude", "yum", "dnf", "pacman", "zypper", "apk",
     "emerge", "xbps-install", "xbps-remove", "xbps-query", "nix-env", "nix"}

KnownExecutable == to_lowercase(PackageTokens[ExecutableIndex]) \in ExecutableAliases

HasOperationToken == Len(PackageTokens) > ExecutableIndex

\* the grammar of the detected manager knows the operation token
RecognisedOperation ==
    IsOk(detect_operation(DetectedManager, <<PackageTokens[ExecutableIndex + 1]>>))

TargetHasMapping == <<arg.to_pm, DetectedOperation>> \in DOMAIN OPERATION_MAPPINGS

\* the variant of the error a call returned
ErrorVariant == IF IsErr(ret) THEN ret[2][1] ELSE "none"

\* the outcomes between different managers: the error of each case, and a
\* result with a command in no case but the last
ErrorOutcomes ==
    DifferentManagers =>
        IF IsBlank(arg.input) THEN ret = Err(PackageEmptyCommand)
        ELSE IF ~KnownExecutable \/ ~HasOperationToken
        THEN ErrorVariant = "NotPackageManagerCommand"
        ELSE IF ~RecognisedOperation \/ ~TargetHasMapping
        THEN ErrorVariant = "UnsupportedOperation"
        ELSE IsOk(ret) /\ ret[2].command # ""

EqualManagersCase == PackageCall /\ arg.from_pm = arg.to_pm /\ ~IsBlank(arg.input)

\* C25 as stated: the error outcomes, and with equal managers every non-blank
\* input is returned unchanged, with no warnings and requires_sudo false.
C25_EqualManagersUnchanged ==
    /\ ErrorOutcomes
    /\ EqualManagersCase =>
           /\ IsOk(ret)
           /\ ret[2].command = arg.input
           /\ ret[2].warnings = <<>>
           /\ ~ret[2].requires_sudo

\* C25, amended: between different managers a blank input gives EmptyCommand,
\* an unknown executable or a missing operation token gives
\* NotPackageManagerCommand, an operation the detected manager does not
\* recognise or the target manager has no entry for gives UnsupportedOperation,
\* and no error carries a command; with equal managers every non-blank input
\* is returned with the whitespace around it removed, with no warnings and
\* requires_sudo false.
C25_EqualManagersTrimmed ==
    /\ ErrorOutcomes
    /\ EqualManagersCase =>
           ret = Ok(PackageTranslationResultNew(trim(arg.input), trim(arg.input),
                                                arg.from_pm, arg.to_pm))

C25_Witness ==
    /\ EqualManagersCase
    /\ arg.input = " sudo\tapt install"
    /\ arg.from_pm = "Apt"
    /\ ret[2].command = "sudo\tapt install"
    /\ ret[2].warnings = <<>>
    /\ ~ret[2].requires_sudo

-----------------------------------------------------------------------------
(* C30: a command of another manager than from_pm *)

\* the line is a command of a manager other than from_pm that the detected
\* manager's grammar reads and the target manager has an entry for
MismatchCase ==
    /\ DifferentManagers
    /\ ~IsBlank(arg.input)
    /\ KnownExecutable
    /\ HasOperationToken
    /\ RecognisedOperation
    /\ TargetHasMapping
    /\ DetectedManager # arg.from_pm

\* the rules of the table keyed by from_pm, to_pm and the operation
RulesOfCall ==
    IF <<arg.from_pm, arg.to_pm, DetectedOperation>> \in DOMAIN FLAG_MAPPINGS
    THEN FLAG_MAPPINGS[<<arg.from_pm, arg.to_pm, DetectedOperation>>]
    ELSE <<>>

\* no rule of the table reads the flag: none has it as source in some letter
\* case, and none has as source what the flag has before its first `=`
HasNoRule(flag) ==
    \A i \in 1..Len(RulesOfCall) :
        /\ to_lowercase(flag) # to_lowercase(RulesOfCall[i].source)
        /\ ~(contains(flag, "=") /\ splitn2(flag, "=")[1] = RulesOfCall[i].source)

\* C30: a command whose executable is of another manager than from_pm is
\* translated all the same: the first warning says which manager the command
\* appears to be for, the operation is the one the detected manager's grammar
\* gives, and every flag with no rule in the table of (from_pm, to_pm,
\* operation) is kept as it is, with one warning each and no error.
C30_DetectedManagerGrammar ==
    MismatchCase =>
        LET flags == SelectSeq(TokensAfterOperation, LeadingDashOrSlash)
            kept == SelectSeq(flags, HasNoRule)
            command == IF starts_with(ret[2].command, "sudo ")
                       THEN SubSeq(ret[2].command, 6, Len(ret[2].command))
                       ELSE ret[2].command
        IN  /\ IsOk(ret)
            /\ ret[2].warnings =
                   <<"Command appears to be for "
                     \o PackageManagerDisplay[DetectedManager]
                     \o " but was specified as "
                     \o PackageManagerDisplay[arg.from_pm]>>
                   \o [i \in 1..Len(kept) |->
                          no_equivalent_warning(kept[i], arg.to_pm, DetectedOperation)]
                   \o (IF TargetMapping.notes = None THEN <<>>
                       ELSE <<TargetMapping.notes[1]>>)
            /\ starts_with(command, TargetMapping.command)
            /\ \A i \in 1..Len(kept) :
                   \E j \in 1..Len(split_whitespace(command)) :
                       split_whitespace(command)[j] = kept[i]

C30_Witness ==
    /\ MismatchCase
    /\ arg.input = "sudo apt install -y vim"
    /\ arg.from_pm = "Pacman"
    /\ arg.to_pm = "Dnf"
    /\ DetectedManager = "Apt"
    /\ ret[2].command = "sudo dnf install -y vim"
    /\ ret[2].warnings =
           <<"Command appears to be for apt but was specified as pacman",
             "Flag '-y' has no direct equivalent in dnf for install operation">>

=============================================================================
